---- MODULE Spec2Model ----
(***************************************************************************)
(* Model of the GMC harvesting pipeline:                                   *)
(*   - final_fixed.py      : multi-source reconciliation (combined_gmc_full)*)
(*   - profile_scraper.py  : fetch resilience, concurrent coordinator,     *)
(*                           doctors_single keyed store (test.py is the    *)
(*                           same code for another output file)            *)
(*   - fixed_parsing_logic.py, gmc_scraped_alphabetically.py : the other   *)
(*                           variants of the fetch loop                    *)
(***************************************************************************)
EXTENDS Integers, Sequences, FiniteSets, TLC

VARIABLES
    \* ---- final_fixed.py ----
    src_cols,        \* source alias -> ordered column list of its table
    src_rows,        \* source alias -> rows of its table, in rowid order
    target_columns,  \* result of union_columns
    combined,        \* combined_gmc_full as seen inside the connection
    committed,       \* combined_gmc_full as durably committed
    csv_rows,        \* rows written by export_csv
    next_src,        \* index of the next INSERT ... SELECT to execute
    rpc              \* position of final_fixed.main

recon_vars == <<src_cols, src_rows, target_columns, combined, committed,
                csv_rows, next_src, rpc>>

VARIABLES
    \* ---- profile_scraper.py / test.py : the keyed store ----
    doctors_single,  \* rows of table doctors_single, in rowid order
    prev_store,      \* doctors_single before the latest write_sqlite call
    last_call,       \* rows argument of the latest write_sqlite call
    prev_call,       \* rows argument of the call before it
    latest,          \* GMC_Number -> the record most recently upserted for it
    ncalls           \* number of write_sqlite calls so far (counted up to 2)

store_vars == <<doctors_single, prev_store, last_call, prev_call, latest, ncalls>>

VARIABLES
    \* ---- the fetch functions: scrape_profile_page, fetch_page_html, scrape_page
    variant,         \* which program runs: "profile", "fixed" or "alpha"
    urls,            \* the list of URLs handed to the program
    fpc,             \* per call: position inside the fetch function
    attempt,         \* per call: loop variable `attempt`
    created,         \* per call: pages created by context.new_page()
    open_pages,      \* per call: pages created by the call and not closed
    html,            \* per call: local `html` between content() and close()
    fresult,         \* per call: return value (None or the HTML)
    only_blocked,    \* per call: every attempt so far got HTML with a marker
    wait,            \* per call: seconds of the backoff sleep in progress
    logmsg,          \* per call: the message printed / logged last
    \* ---- scrape_profiles and main ----
    cpc,             \* position of scrape_profiles / main
    wpc,             \* per worker task: position of worker(url)
    sem,             \* free slots of asyncio.Semaphore(MAX_CONCURRENT_PAGES)
    results,         \* the shared list `results`
    progress,        \* progress.n of the tqdm bar
    idx,             \* loop position of the sequential scrape_profiles
    out_file         \* rows written to OUT_CSV / OUT_JSON

fetch_vars == <<variant, urls, fpc, attempt, created, open_pages, html, fresult,
                only_blocked, wait, logmsg>>

coord_vars == <<cpc, wpc, sem, results, progress, idx, out_file>>

scrape_vars == <<fetch_vars, coord_vars>>

VARIABLES
    \* ---- profile_scraper.py : load_target_urls_from_db ----
    db_file,         \* the CSV file or database at DB_PATH, rows in file order
    target_urls,     \* the list load_target_urls_from_db returned
    lpc,             \* position of load_target_urls_from_db
    \* ---- profile_scraper.py : parse_gp_profile ----
    doc,             \* the HTML document handed to parse_gp_profile
    parsed,          \* the record parse_gp_profile returned
    ppc              \* position of parse_gp_profile

pure_vars == <<db_file, target_urls, lpc, doc, parsed, ppc>>

VARIABLES
    \* ---- gmc_scraped_alphabetically.py : scrape_letter and main ----
    showing,         \* the N of "Showing a-b of N" on the first page, if any
    page_recs,       \* page number -> records parse_html finds on the page
    page_ok,         \* page number -> scrape_page returns the page's HTML
    total_pages,     \* local `total_pages`
    buffer,          \* local `buffer`
    all_data,        \* local `all_data`, returned at the end
    gmc_data,        \* rows of table gmc_data, in rowid order
    start,           \* loop variable `start` of the batch loop
    reported,        \* the record count main prints for the letter
    slpc             \* position of scrape_letter

letter_vars == <<showing, page_recs, page_ok, total_pages, buffer, all_data,
                 gmc_data, start, reported, slpc>>

VARIABLES
    \* ---- scraping_gmc.py : scrape_gmc_pages ----
    id_pages,        \* per visited ID, in order: what its page holds
    max_ids,         \* parameter max_ids
    max_consecutive_invalid,  \* parameter max_consecutive_invalid
    visited,         \* number of IDs the loop has visited
    valid_count,     \* local `valid_count`
    invalid_count,   \* local `invalid_count`
    csv_file,        \* rows appended to bulk_doctor_info.csv
    totals,          \* the two totals printed at the end
    gpc              \* position of scrape_gmc_pages

ids_vars == <<id_pages, max_ids, max_consecutive_invalid, visited, valid_count,
              invalid_count, csv_file, totals, gpc>>

walk_vars == <<letter_vars, ids_vars>>

vars == <<recon_vars, store_vars, scrape_vars, pure_vars, walk_vars>>

(***************************************************************************)
(* Bounds of the model                                                     *)
(***************************************************************************)
\* total number of rows over the three source tables
MaxRows == 3
\* longest column list of a source table (schema-union specification)
MaxCols == 3
\* longest rows argument of one write_sqlite call
MaxBatch == 2
\* longest URL list handed to scrape_profiles
NumUrls == 2
\* configured attempt limit per URL (the programs set 5, 5 and 3)
RETRY_LIMIT == 3
\* configured size of the semaphore (the programs set 6)
MAX_CONCURRENT_PAGES == 1

(***************************************************************************)
(* Each program of the repository runs on its own; while one is modelled   *)
(* the state of the others stays as below.                                 *)
(***************************************************************************)
\* final_fixed.py not running
ReconIdle ==
    /\ src_cols = <<>>
    /\ src_rows = <<>>
    /\ target_columns = <<>>
    /\ combined = <<>>
    /\ committed = <<>>
    /\ csv_rows = <<>>
    /\ next_src = 1
    /\ rpc = "idle"

\* an empty keyed store, never written
StoreIdle ==
    /\ doctors_single = <<>>
    /\ prev_store = <<>>
    /\ last_call = <<>>
    /\ prev_call = <<>>
    /\ latest = <<>>
    /\ ncalls = 0

\* an HTML document: the page-order list of its field blocks and its tables
NoPage == [blocks |-> <<>>, tables |-> <<>>]

\* neither the URL loader nor the extractor running
PureIdle ==
    /\ db_file = [kind |-> "none", rows |-> <<>>]
    /\ target_urls = <<>>
    /\ lpc = "idle"
    /\ doc = NoPage
    /\ parsed = <<>>
    /\ ppc = "idle"

\* neither scrape_letter nor scrape_gmc_pages running
WalkIdle ==
    /\ showing = [none |-> TRUE, n |-> 0]
    /\ page_recs = <<>>
    /\ page_ok = <<>>
    /\ total_pages = 0
    /\ buffer = <<>>
    /\ all_data = <<>>
    /\ gmc_data = <<>>
    /\ start = 0
    /\ reported = -1
    /\ slpc = "idle"
    /\ id_pages = <<>>
    /\ max_ids = 0
    /\ max_consecutive_invalid = 0
    /\ visited = 0
    /\ valid_count = 0
    /\ invalid_count = 0
    /\ csv_file = <<>>
    /\ totals = <<>>
    /\ gpc = "idle"

Workers == 1..NumUrls

\* an optional Python value: None or a string
None == [none |-> TRUE, s |-> ""]

Some(s) == [none |-> FALSE, s |-> s]

\* Python truthiness of an optional string
Truthy(v) == ~v.none /\ v.s # ""

\* a rendered document: the blocking keywords its lower-cased text contains,
\* the registration id and body of a profile page, the number of result rows
\* of a listing page
Doc(m, g, b, r) == [none |-> FALSE, markers |-> m, gmc |-> g, body |-> b, rows |-> r]

\* Python None where HTML is expected
NoHtml == [none |-> TRUE, markers |-> {}, gmc |-> None, body |-> 0, rows |-> 0]

\* no scraper running
ScrapeIdle ==
    /\ variant = "none"
    /\ urls = <<>>
    /\ fpc = [w \in Workers |-> "idle"]
    /\ attempt = [w \in Workers |-> 0]
    /\ created = [w \in Workers |-> 0]
    /\ open_pages = [w \in Workers |-> 0]
    /\ html = [w \in Workers |-> NoHtml]
    /\ fresult = [w \in Workers |-> NoHtml]
    /\ only_blocked = [w \in Workers |-> TRUE]
    /\ wait = [w \in Workers |-> 0]
    /\ logmsg = [w \in Workers |-> ""]
    /\ cpc = "idle"
    /\ wpc = [w \in Workers |-> "idle"]
    /\ sem = MAX_CONCURRENT_PAGES
    /\ results = <<>>
    /\ progress = 0
    /\ idx = 1
    /\ out_file = <<>>

(***************************************************************************)
(* SQL values.  A TEXT value is a sequence of characters, NULL is distinct *)
(* from every text, the empty text included.                               *)
(***************************************************************************)
NullV == [null |-> TRUE, s |-> <<>>]

Text(s) == [null |-> FALSE, s |-> s]

\* SQLite UPPER(): ASCII letters only
UpperChar(c) ==
    CASE c = "a" -> "A"
      [] c = "b" -> "B"
      [] OTHER -> c

UpperSeq(s) == [i \in 1..Len(s) |-> UpperChar(s[i])]

RECURSIVE LTrim(_)
LTrim(s) == IF s # <<>> /\ Head(s) = " " THEN LTrim(Tail(s)) ELSE s

RECURSIVE RTrim(_)
RTrim(s) ==
    IF s # <<>> /\ s[Len(s)] = " " THEN RTrim(SubSeq(s, 1, Len(s) - 1)) ELSE s

\* SQLite TRIM(): removes spaces from both ends
Trim(s) == RTrim(LTrim(s))

\* UPPER(TRIM(s.GMC_Number)); both functions return NULL for NULL
NormKey(k) == IF k.null THEN NullV ELSE Text(UpperSeq(Trim(k.s)))

\* x NOT IN (SELECT ...) in SQL's three-valued logic: "T", "F" or "N" (NULL)
NotIn(x, S) ==
    IF S = {} THEN "T"
    ELSE IF x.null THEN "N"
    ELSE IF x \in S THEN "F"
    ELSE IF NullV \in S THEN "N"
    ELSE "T"

(***************************************************************************)
(* profile_scraper.py / test.py : records, flat rows and the keyed store    *)
(***************************************************************************)
\* columns of doctors_single in the order of the CREATE TABLE / VALUES list
Columns ==
    <<"GMC_Number", "Name", "Licence_Status", "Profession", "Gender",
      "Registered_Qualification", "Full_Registration_Date", "Annual_Fee_Due",
      "Designated_Body", "Responsible_Officer", "On_GP_Register", "GP_Since",
      "On_Specialist_Register", "Specialties_Flat", "Registration_History_Flat",
      "Profile_URL">>

ColumnSet == {Columns[i] : i \in 1..Len(Columns)}

\* flatten_history: entries "From: f | To: t | Status: s" joined with ", ";
\* a text is the sequence of its pieces
RECURSIVE flatten_history(_)
flatten_history(history) ==
    IF history = <<>> THEN <<>>
    ELSE LET h == history[Len(history)]
             entry == <<"From: ", h.From, " | To: ", h.To, " | Status: ", h.Status>>
             before == flatten_history(SubSeq(history, 1, Len(history) - 1))
         IN  IF before = <<>> THEN entry ELSE before \o <<", ">> \o entry

\* flatten_specialties: " ".join(spec_list)
RECURSIVE flatten_specialties(_)
flatten_specialties(spec_list) ==
    IF spec_list = <<>> THEN <<>>
    ELSE LET before == flatten_specialties(SubSeq(spec_list, 1, Len(spec_list) - 1))
         IN  IF before = <<>> THEN <<spec_list[Len(spec_list)]>>
             ELSE before \o <<" ", spec_list[Len(spec_list)]>>

\* to_single_row: the flat row of a parsed record
to_single_row(rec) ==
    [GMC_Number                |-> rec.GMC_Number,
     Name                      |-> rec.Name,
     Licence_Status            |-> rec.Licence_Status,
     Profession                |-> rec.Profession,
     Gender                    |-> rec.Gender,
     Registered_Qualification  |-> rec.Registered_Qualification,
     Full_Registration_Date    |-> rec.Full_Registration_Date,
     Annual_Fee_Due            |-> rec.Annual_Fee_Due,
     Designated_Body           |-> rec.Designated_Body,
     Responsible_Officer       |-> rec.Responsible_Officer,
     On_GP_Register            |-> IF rec.GP_Register.On_Register THEN 1 ELSE 0,
     GP_Since                  |-> IF Truthy(rec.GP_Register.Since)
                                   THEN rec.GP_Register.Since.s ELSE "",
     On_Specialist_Register    |-> IF rec.Specialist_Register.On_Register THEN 1 ELSE 0,
     Specialties_Flat          |-> flatten_specialties(rec.Specialist_Register.Specialties),
     Registration_History_Flat |-> flatten_history(rec.Registration_History),
     Profile_URL               |-> rec.Profile_URL]

\* what parse_gp_profile returns for the page bodies of the model (0: a page
\* that rendered without its content), with the registration id gmc and, set
\* by the worker, the Profile_URL url
ParsedRecord(gmc, body, url) ==
    IF body = 0
    THEN [GMC_Number |-> gmc, Name |-> None,
          Licence_Status |-> Some("Registered with a licence to practise"),
          Profession |-> None, Gender |-> None,
          Registered_Qualification |-> None,
          Full_Registration_Date |-> None,
          Annual_Fee_Due |-> None,
          Designated_Body |-> None,
          Responsible_Officer |-> None,
          GP_Register |-> [On_Register |-> FALSE, Since |-> None],
          Specialist_Register |-> [On_Register |-> FALSE, Specialties |-> <<>>],
          Registration_History |-> <<>>,
          Profile_URL |-> url]
    ELSE IF body = 1
    THEN [GMC_Number |-> gmc, Name |-> Some("Jane Doe"),
          Licence_Status |-> Some("Registered with a licence to practise"),
          Profession |-> Some("Doctor"), Gender |-> Some("Woman"),
          Registered_Qualification |-> Some("MB BS 2000 University of London"),
          Full_Registration_Date |-> Some("01 Aug 2001"),
          Annual_Fee_Due |-> Some("01 Aug 2026"),
          Designated_Body |-> Some("NHS England"),
          Responsible_Officer |-> Some("John Smith"),
          GP_Register |-> [On_Register |-> TRUE, Since |-> Some("01 Jan 2010")],
          Specialist_Register |-> [On_Register |-> FALSE, Specialties |-> <<>>],
          Registration_History |->
              <<[From |-> "01 Aug 2001", To |-> "", Status |-> "Full"],
                [From |-> "01 Aug 2000", To |-> "01 Aug 2001", Status |-> "Provisional"]>>,
          Profile_URL |-> url]
    ELSE [GMC_Number |-> gmc, Name |-> None,
          Licence_Status |-> Some("Registered with a licence to practise"),
          Profession |-> None, Gender |-> Some("Man"),
          Registered_Qualification |-> None,
          Full_Registration_Date |-> Some("02 Feb 1992"),
          Annual_Fee_Due |-> None,
          Designated_Body |-> None,
          Responsible_Officer |-> None,
          GP_Register |-> [On_Register |-> FALSE, Since |-> None],
          Specialist_Register |->
              [On_Register |-> TRUE,
               Specialties |-> <<"[Cardiology from 01 Jan 2015]",
                                 "[General medicine from 03 Mar 2016]">>],
          Registration_History |-> <<>>,
          Profile_URL |-> url]

\* the profile URLs of the model; the third and fourth are second addresses
\* of the registrants of the first and second
AllUrls ==
    <<"https://www.gmc-uk.org/registrants/1234567",
      "https://www.gmc-uk.org/registrants/7654321",
      "https://www.gmc-uk.org/registrants/1234567/",
      "https://www.gmc-uk.org/registrants/7654321/",
      "https://www.gmc-uk.org/registrants/1234567?",
      "https://www.gmc-uk.org/registrants/7654321?">>

\* registration id shown on the profile page at URL number n
GmcAt(n) == IF n % 2 = 1 THEN "1234567" ELSE "7654321"

\* which of the two page bodies the site serves at URL number n
BodyAt(n) == IF n \in {1, 4, 5} THEN 1 ELSE 2

\* what worker() appends for URL number n when the page rendered completely
RecordAt(n) == ParsedRecord(Some(GmcAt(n)), BodyAt(n), Some(AllUrls[n]))

\* the flat rows main() can hand to write_sqlite
SingleRows == {to_single_row(RecordAt(n)) : n \in 1..3}

\* index of the row holding key k (SQLite: NULL never conflicts)
ConflictRows(store, r) ==
    {i \in 1..Len(store) : ~r.GMC_Number.none /\ store[i].GMC_Number = r.GMC_Number}

\* an update list that leaves the stored Profile_URL as it was
UpdatedColumns_NoProfileUrl ==
    {"Name", "Licence_Status", "Profession", "Gender", "Registered_Qualification",
     "Full_Registration_Date", "Annual_Fee_Due", "Designated_Body",
     "Responsible_Officer", "On_GP_Register", "GP_Since", "On_Specialist_Register",
     "Specialties_Flat", "Registration_History_Flat"}

\* the columns assigned in ON CONFLICT(GMC_Number) DO UPDATE SET ...
UpdatedColumns ==
    {"Name", "Licence_Status", "Profession", "Gender", "Registered_Qualification",
     "Full_Registration_Date", "Annual_Fee_Due", "Designated_Body",
     "Responsible_Officer", "On_GP_Register", "GP_Since", "On_Specialist_Register",
     "Specialties_Flat", "Registration_History_Flat", "Profile_URL"}

\* a write that inserts without the ON CONFLICT clause taking effect
Upsert_AlwaysAppend(store, r) == Append(store, r)

\* INSERT ... ON CONFLICT(GMC_Number) DO UPDATE SET c = excluded.c, ...
Upsert(store, r) ==
    IF ConflictRows(store, r) = {} THEN Append(store, r)
    ELSE [i \in 1..Len(store) |->
             IF i \in ConflictRows(store, r)
             THEN [c \in ColumnSet |->
                      IF c \in UpdatedColumns THEN r[c] ELSE store[i][c]]
             ELSE store[i]]

\* the for loop of write_sqlite
RECURSIVE WriteRows(_, _)
WriteRows(store, rows) ==
    IF rows = <<>> THEN store
    ELSE WriteRows(Upsert(store, Head(rows)), Tail(rows))

\* the record most recently upserted for each key
RECURSIVE LatestAfter(_, _)
LatestAfter(l, rows) ==
    IF rows = <<>> THEN l
    ELSE LET r == Head(rows)
         IN  LatestAfter([k \in DOMAIN l \cup {r.GMC_Number} |->
                             IF k = r.GMC_Number THEN r ELSE l[k]],
                         Tail(rows))

Batches == UNION {[1..n -> SingleRows] : n \in 0..MaxBatch}

\* write_sqlite(rows, out_db): create the table if missing, upsert every row,
\* commit
write_sqlite(rows) ==
    /\ doctors_single' = WriteRows(doctors_single, rows)
    /\ prev_store' = doctors_single
    /\ prev_call' = last_call
    /\ last_call' = rows
    /\ latest' = LatestAfter(latest, rows)
    /\ ncalls' = IF ncalls < 2 THEN ncalls + 1 ELSE ncalls

InitStore == ReconIdle /\ StoreIdle /\ ScrapeIdle /\ PureIdle /\ WalkIdle

\* one run of main() ending in write_sqlite(single_rows, OUT_SQLITE)
WriteSqlite ==
    /\ \E rows \in Batches : write_sqlite(rows)
    /\ UNCHANGED <<recon_vars, scrape_vars, pure_vars, walk_vars>>

NextStore == WriteSqlite

SpecStore == InitStore /\ [][NextStore]_vars

(***************************************************************************)
(* final_fixed.py : the reconciliation engine                              *)
(***************************************************************************)
\* aliases of the attached source databases, in the order main() merges them
Sources == <<"missed", "spdb", "gpdb">>

SourceSet == {Sources[i] : i \in 1..Len(Sources)}

\* source_db label: os.path.basename of the configured path
SourceLabel(a) ==
    CASE a = "missed" -> "missed_gmc.sqlite"
      [] a = "spdb" -> "sp_doctors.sqlite"
      [] a = "gpdb" -> "gp_doctors.sqlite"

\* name of the table find_table_with_gmc_number returns for the source
SourceTable(a) ==
    CASE a = "missed" -> "doctors_single"
      [] a = "spdb" -> "sp_doctors"
      [] a = "gpdb" -> "gp_doctors"

Range(f) == {f[i] : i \in DOMAIN f}

\* union_columns without the `c not in seen` test
RECURSIVE AppendUnseen_NoSeenTest(_, _)
AppendUnseen_NoSeenTest(ordered, cols) ==
    IF cols = <<>> THEN ordered
    ELSE LET c == Head(cols)
         IN  IF c # "GMC_Number"
             THEN AppendUnseen_NoSeenTest(Append(ordered, c), Tail(cols))
             ELSE AppendUnseen_NoSeenTest(ordered, Tail(cols))

\* inner loop of union_columns: append the unseen columns of one list
RECURSIVE AppendUnseen(_, _)
AppendUnseen(ordered, cols) ==
    IF cols = <<>> THEN ordered
    ELSE LET c == Head(cols)
         IN  IF c \notin Range(ordered) /\ c # "GMC_Number"
             THEN AppendUnseen(Append(ordered, c), Tail(cols))
             ELSE AppendUnseen(ordered, Tail(cols))

\* outer loop of union_columns over the column lists, GMC_Number first
RECURSIVE UnionFrom(_, _)
UnionFrom(ordered, column_lists) ==
    IF column_lists = <<>> THEN ordered
    ELSE UnionFrom(AppendUnseen(ordered, Head(column_lists)), Tail(column_lists))

union_columns(column_lists) == UnionFrom(<<"GMC_Number">>, column_lists)

\* value of column c in a source row: every cell is tagged with its origin
NullCell == [null |-> TRUE, src |-> "", tag |-> 0, col |-> ""]

CellOf(a, r, c) == [null |-> FALSE, src |-> a, tag |-> r.tag, col |-> c]

NonKey(cols) == Range(cols) \ {"GMC_Number"}

\* a SELECT list with NULL for every column but the key
SelectRow_AllNull(tcols, a, r) ==
    [GMC_Number   |-> NormKey(r.key),
     cells        |-> [c \in NonKey(tcols) |-> NullCell],
     source_db    |-> SourceLabel(a),
     source_table |-> SourceTable(a)]

\* the SELECT list of build_insert_sql applied to one source row
SelectRow(tcols, a, r) ==
    [GMC_Number   |-> NormKey(r.key),
     cells        |-> [c \in NonKey(tcols) |->
                          IF c \in Range(src_cols[a]) THEN CellOf(a, r, c)
                          ELSE NullCell],
     source_db    |-> SourceLabel(a),
     source_table |-> SourceTable(a)]

KeysOf(tbl) == {tbl[i].GMC_Number : i \in 1..Len(tbl)}

\* a statement that takes the first row of the source only
SelectedRows_FirstRowOnly(tbl, a) ==
    SelectSeq(IF src_rows[a] = <<>> THEN <<>> ELSE <<Head(src_rows[a])>>,
              LAMBDA r : NotIn(NormKey(r.key), KeysOf(tbl)) = "T")

\* a statement without the WHERE clause
SelectedRows_NoGuard(tbl, a) == src_rows[a]

\* rows the WHERE ... NOT IN (SELECT GMC_Number FROM combined_gmc_full) keeps;
\* the subquery reads the table as it is when the statement starts
SelectedRows(tbl, a) ==
    SelectSeq(src_rows[a], LAMBDA r : NotIn(NormKey(r.key), KeysOf(tbl)) = "T")

\* a statement that labels every row with the first source
InsertBatch_LabelledFirst(tcols, tbl, a) ==
    LET sel == SelectedRows(tbl, a)
    IN  [i \in 1..Len(sel) |-> SelectRow(tcols, Sources[1], sel[i])]

\* the rows the INSERT ... SELECT of build_insert_sql tries to insert
InsertBatch(tcols, tbl, a) ==
    LET sel == SelectedRows(tbl, a)
    IN  [i \in 1..Len(sel) |-> SelectRow(tcols, a, sel[i])]

\* PRIMARY KEY (TEXT): two rows with the same non-NULL key conflict
UniqueViolation(tbl, batch) ==
    LET all == tbl \o batch
    IN  \E i, j \in 1..Len(all) :
            /\ i < j
            /\ j > Len(tbl)
            /\ ~all[j].GMC_Number.null
            /\ all[i].GMC_Number = all[j].GMC_Number

\* byte order of the characters used (BINARY collation)
CharRank(c) ==
    CASE c = " " -> 0
      [] c = "1" -> 1
      [] c = "A" -> 2
      [] c = "B" -> 3
      [] c = "a" -> 4
      [] c = "b" -> 5

RECURSIVE SeqLess(_, _)
SeqLess(s, t) ==
    IF t = <<>> THEN FALSE
    ELSE IF s = <<>> THEN TRUE
    ELSE IF Head(s) # Head(t) THEN CharRank(Head(s)) < CharRank(Head(t))
    ELSE SeqLess(Tail(s), Tail(t))

\* ORDER BY GMC_Number: NULLs first, then texts in byte order
KeyLess(x, y) ==
    IF x.null THEN ~y.null
    ELSE IF y.null THEN FALSE
    ELSE SeqLess(x.s, y.s)

RECURSIVE InsertSorted(_, _)
InsertSorted(sorted, row) ==
    IF sorted = <<>> THEN <<row>>
    ELSE IF KeyLess(row.GMC_Number, Head(sorted).GMC_Number)
         THEN <<row>> \o sorted
         ELSE <<Head(sorted)>> \o InsertSorted(Tail(sorted), row)

RECURSIVE OrderByKey(_)
OrderByKey(tbl) ==
    IF tbl = <<>> THEN <<>>
    ELSE InsertSorted(OrderByKey(SubSeq(tbl, 1, Len(tbl) - 1)), tbl[Len(tbl)])

\* keys a source table may hold: "a" and " A" normalise to the same key
RawKeys == {Text(<<"a">>), Text(<<" ", "A">>), Text(<<"b">>), NullV}

\* column lists of the source tables used with rows; the last one is the
\* table of a store in which no table has a GMC_Number column
ColChoices ==
    { <<"GMC_Number", "Name">>,
      <<"GMC_Number", "Name", "Gender">>,
      <<"Gender", "GMC_Number">>,
      <<"Name", "Gender">> }

\* find_table_with_gmc_number(conn, a) finds a table
HasKeyColumn(a) == "GMC_Number" \in Range(src_cols[a])

RowsOf(keys) == [i \in 1..Len(keys) |-> [key |-> keys[i], tag |-> i]]

InitRecon ==
    /\ src_cols \in [SourceSet -> ColChoices]
    /\ \E n1, n2, n3 \in 0..MaxRows :
          /\ n1 + n2 + n3 <= MaxRows
          /\ \E k1 \in [1..n1 -> RawKeys], k2 \in [1..n2 -> RawKeys],
                k3 \in [1..n3 -> RawKeys] :
                src_rows = [a \in SourceSet |->
                               CASE a = "missed" -> RowsOf(k1)
                                 [] a = "spdb" -> RowsOf(k2)
                                 [] a = "gpdb" -> RowsOf(k3)]
    /\ target_columns = <<>>
    /\ combined = <<>>
    /\ committed = <<>>
    /\ csv_rows = <<>>
    /\ next_src = 1
    /\ rpc = "start"
    /\ StoreIdle
    /\ PureIdle
    /\ WalkIdle
    /\ ScrapeIdle

\* main, lines 132-141: find the tables, build the union schema, create the
\* output table (committed at once)
Prepare ==
    /\ rpc = "start"
    /\ \A a \in SourceSet : HasKeyColumn(a)
    /\ target_columns' = union_columns([i \in 1..Len(Sources) |-> src_cols[Sources[i]]])
    /\ combined' = committed
    /\ next_src' = 1
    /\ rpc' = "insert"
    /\ UNCHANGED <<src_cols, src_rows, committed, csv_rows>>
    /\ UNCHANGED <<store_vars, scrape_vars, pure_vars, walk_vars>>

\* main, lines 133-135: find_table_with_gmc_number raises RuntimeError for a
\* store without such a table; the exception leaves main before the output
\* table is created
PrepareFails ==
    /\ rpc = "start"
    /\ \E a \in SourceSet : ~HasKeyColumn(a)
    /\ rpc' = "raised"
    /\ UNCHANGED <<src_cols, src_rows, target_columns, combined, committed, csv_rows,
                   next_src>>
    /\ UNCHANGED <<store_vars, scrape_vars, pure_vars, walk_vars>>

\* main, lines 150-153: one INSERT ... SELECT that succeeds
InsertOk ==
    /\ rpc = "insert"
    /\ next_src <= Len(Sources)
    /\ LET batch == InsertBatch(target_columns, combined, Sources[next_src])
       IN  /\ ~UniqueViolation(combined, batch)
           /\ combined' = combined \o batch
    /\ next_src' = next_src + 1
    /\ UNCHANGED <<src_cols, src_rows, target_columns, committed, csv_rows, rpc>>
    /\ UNCHANGED <<store_vars, scrape_vars, pure_vars, walk_vars>>

\* one INSERT ... SELECT that hits the primary key: sqlite3.IntegrityError
\* leaves main; the open transaction is rolled back with the connection
InsertFails ==
    /\ rpc = "insert"
    /\ next_src <= Len(Sources)
    /\ UniqueViolation(combined,
                       InsertBatch(target_columns, combined, Sources[next_src]))
    /\ combined' = committed
    /\ rpc' = "raised"
    /\ UNCHANGED <<src_cols, src_rows, target_columns, committed, csv_rows, next_src>>
    /\ UNCHANGED <<store_vars, scrape_vars, pure_vars, walk_vars>>

\* main, line 154: out_conn.commit()
Commit ==
    /\ rpc = "insert"
    /\ next_src > Len(Sources)
    /\ committed' = combined
    /\ rpc' = "export"
    /\ UNCHANGED <<src_cols, src_rows, target_columns, combined, csv_rows, next_src>>
    /\ UNCHANGED <<store_vars, scrape_vars, pure_vars, walk_vars>>

\* main, line 157: export_csv
ExportCsv ==
    /\ rpc = "export"
    /\ csv_rows' = OrderByKey(combined)
    /\ rpc' = "done"
    /\ UNCHANGED <<src_cols, src_rows, target_columns, combined, committed, next_src>>
    /\ UNCHANGED <<store_vars, scrape_vars, pure_vars, walk_vars>>

NextRecon == Prepare \/ PrepareFails \/ InsertOk \/ InsertFails \/ Commit \/ ExportCsv

SpecRecon == InitRecon /\ [][NextRecon]_vars

\* ---- the rows of every source in every order ----
\* the orders in which a table of n rows may hold them
Perms(n) == {p \in [1..n -> 1..n] : \A i, j \in 1..n : i # j => p[i] # p[j]}

\* rows with the keys of the list, the row tagged p[i] stored at position i
RowsInOrder(keys, p) == [i \in 1..Len(keys) |-> [key |-> keys[i], tag |-> p[i]]]

InitPerm ==
    /\ src_cols = [a \in SourceSet |->
                      CASE a = "missed" -> <<"GMC_Number", "Name">>
                        [] a = "spdb" -> <<"GMC_Number", "Name", "Gender">>
                        [] a = "gpdb" -> <<"Gender", "GMC_Number">>]
    /\ \E n1, n2, n3 \in 0..MaxRows :
          /\ n1 + n2 + n3 <= MaxRows
          /\ \E k1 \in [1..n1 -> RawKeys], k2 \in [1..n2 -> RawKeys],
                k3 \in [1..n3 -> RawKeys] :
                \E p1 \in Perms(n1), p2 \in Perms(n2), p3 \in Perms(n3) :
                    src_rows = [a \in SourceSet |->
                                   CASE a = "missed" -> RowsInOrder(k1, p1)
                                     [] a = "spdb" -> RowsInOrder(k2, p2)
                                     [] a = "gpdb" -> RowsInOrder(k3, p3)]
    /\ target_columns = <<>>
    /\ combined = <<>>
    /\ committed = <<>>
    /\ csv_rows = <<>>
    /\ next_src = 1
    /\ rpc = "start"
    /\ StoreIdle
    /\ PureIdle
    /\ WalkIdle
    /\ ScrapeIdle

NextPerm == Prepare \/ InsertOk \/ InsertFails \/ Commit \/ ExportCsv

SpecPerm == InitPerm /\ [][NextPerm]_vars

\* ---- a second run over the same sources and the existing output ----
\* the three INSERT ... SELECT of main from statement i on, the table being
\* tbl: the table they leave, or the report that one hit the primary key
RECURSIVE RunInserts(_, _)
RunInserts(tbl, i) ==
    IF i > Len(Sources)
    THEN [ok |-> TRUE, tbl |-> tbl]
    ELSE LET batch == InsertBatch(target_columns, tbl, Sources[i])
         IN  IF UniqueViolation(tbl, batch)
             THEN [ok |-> FALSE, tbl |-> tbl]
             ELSE RunInserts(tbl \o batch, i + 1)

\* main run again after a run that ended: the union schema is the same,
\* CREATE TABLE IF NOT EXISTS keeps the committed table, the three
\* statements run in one transaction that is committed and exported, or
\* rolled back by the IntegrityError that leaves main
SecondRun ==
    /\ rpc \in {"done", "raised"}
    /\ target_columns = union_columns([i \in 1..Len(Sources) |-> src_cols[Sources[i]]])
    /\ LET run == RunInserts(committed, 1)
       IN  IF run.ok
           THEN /\ combined' = run.tbl
                /\ committed' = run.tbl
                /\ csv_rows' = OrderByKey(run.tbl)
                /\ next_src' = Len(Sources) + 1
                /\ rpc' = "done again"
           ELSE /\ combined' = committed
                /\ rpc' = "raised again"
                /\ UNCHANGED <<committed, csv_rows, next_src>>
    /\ UNCHANGED <<src_cols, src_rows, target_columns>>
    /\ UNCHANGED <<store_vars, scrape_vars, pure_vars, walk_vars>>

NextRerun == Prepare \/ InsertOk \/ InsertFails \/ Commit \/ ExportCsv \/ SecondRun

SpecRerun == InitPerm /\ [][NextRerun]_vars

\* ---- schema union over every shape of the three column lists ----
ColNames == {"GMC_Number", "Name", "Gender", "Profile_URL"}

\* column lists of a table that find_table_with_gmc_number accepts: distinct
\* names, GMC_Number among them, at any position
ColLists ==
    {cl \in UNION {[1..n -> ColNames] : n \in 1..MaxCols} :
        /\ "GMC_Number" \in Range(cl)
        /\ \A i, j \in 1..Len(cl) : i # j => cl[i] # cl[j]}

InitUnion ==
    /\ src_cols \in [SourceSet -> ColLists]
    /\ src_rows = [a \in SourceSet |-> <<>>]
    /\ target_columns = <<>>
    /\ combined = <<>>
    /\ committed = <<>>
    /\ csv_rows = <<>>
    /\ next_src = 1
    /\ rpc = "start"
    /\ StoreIdle
    /\ PureIdle
    /\ WalkIdle
    /\ ScrapeIdle

NextUnion == Prepare

SpecUnion == InitUnion /\ [][NextUnion]_vars

(***************************************************************************)
(* The fetch resilience layer                                              *)
(***************************************************************************)
\* number of the URL a call works on
UrlNo(w) == CHOOSE n \in 1..Len(AllUrls) : AllUrls[n] = urls[w]

\* keywords of the blocking check of scrape_profile_page and fetch_page_html
ProfileMarkers == {"verify", "captcha", "blocked", "unusual activity"}

\* keywords of the blocking check of scrape_page
ListingMarkers == {"verify", "captcha", "blocked"}

\* any(keyword in html.lower() for keyword in ...)
Blocked(h, keywords) == h.markers \cap keywords # {}

\* documents the site may serve for profile URL number n: the profile, a page
\* rendered without its content, a verification wall
ProfilePages(n) ==
    {Doc({}, Some(GmcAt(n)), BodyAt(n), 0),
     Doc({}, None, 0, 0),
     Doc({"captcha"}, None, 0, 0)}

\* documents the site may serve for a listing URL
ListingPages ==
    {Doc({}, None, 0, 2),
     Doc({}, None, 0, 0),
     Doc({"captcha"}, None, 0, 0),
     Doc({"unusual activity"}, None, 0, 2)}

\* parse_gp_profile as far as the scrapers use it: the record of the document
parse_gp_profile(h) == ParsedRecord(h.gmc, h.body, None)

\* parse_html of gmc_scraped_alphabetically.py: the number of rows found
parse_html(h) == h.rows

\* page.close() lets go of the page; when it raises, the page is already gone
ClosePage(n) == n - 1

\* a loop that runs one iteration more than range(RETRY_LIMIT)
AttemptsLeft_OneMore(a) == a < RETRY_LIMIT

\* `for attempt in range(RETRY_LIMIT)`: is there an iteration after number a
AttemptsLeft(a) == a + 1 < RETRY_LIMIT

\* `for attempt in range(1, RETRY_LIMIT + 1)`
AttemptsLeftFrom1(a) == a + 1 < RETRY_LIMIT + 1

\* ---- profile_scraper.py / test.py : scrape_profile_page ----

\* a probe that accepts every document
ValidHtml_Always(h) == TRUE

\* parsed = parse_gp_profile(html); if parsed.get("GMC_Number")
ValidHtml(h) == Truthy(parse_gp_profile(h).GMC_Number)

\* a backoff that does not grow: 5 seconds after every blocked attempt
BlockedWait_Flat(a) == 5

\* asyncio.sleep(5 * (attempt + 1)) after a blocked attempt
BlockedWait(a) == 5 * (a + 1)

\* asyncio.sleep(3 * (attempt + 1)) in the except clause
ErrorWait(a) == 3 * (a + 1)

\* page = await context.new_page()
P_NewPage(w) ==
    /\ variant = "profile"
    /\ fpc[w] = "new_page"
    /\ created' = [created EXCEPT ![w] = @ + 1]
    /\ open_pages' = [open_pages EXCEPT ![w] = @ + 1]
    /\ fpc' = [fpc EXCEPT ![w] = "loading"]
    /\ UNCHANGED <<variant, urls, attempt, html, fresult, only_blocked, wait, logmsg>>
    /\ UNCHANGED <<recon_vars, store_vars, coord_vars, pure_vars, walk_vars>>

\* context.new_page() raises: the call is outside the try, the exception
\* leaves scrape_profile_page
P_NewPageRaises(w) ==
    /\ variant = "profile"
    /\ fpc[w] = "new_page"
    /\ fpc' = [fpc EXCEPT ![w] = "raised"]
    /\ only_blocked' = [only_blocked EXCEPT ![w] = FALSE]
    /\ UNCHANGED <<variant, urls, attempt, created, open_pages, html, fresult, wait, logmsg>>
    /\ UNCHANGED <<recon_vars, store_vars, coord_vars, pure_vars, walk_vars>>

\* goto / wait_for_timeout / evaluate / content raises: the except clause
\* closes the page and sleeps 3 * (attempt + 1)
P_LoadRaises(w) ==
    /\ variant = "profile"
    /\ fpc[w] = "loading"
    /\ open_pages' = [open_pages EXCEPT ![w] = ClosePage(@)]
    /\ wait' = [wait EXCEPT ![w] = ErrorWait(attempt[w])]
    /\ fpc' = [fpc EXCEPT ![w] = "sleep"]
    /\ only_blocked' = [only_blocked EXCEPT ![w] = FALSE]
    /\ logmsg' = [logmsg EXCEPT ![w] = "error"]
    /\ UNCHANGED <<variant, urls, attempt, created, html, fresult>>
    /\ UNCHANGED <<recon_vars, store_vars, coord_vars, pure_vars, walk_vars>>

\* html = await page.content()
P_Loaded(w) ==
    /\ variant = "profile"
    /\ fpc[w] = "loading"
    /\ \E h \in ProfilePages(UrlNo(w)) :
          /\ html' = [html EXCEPT ![w] = h]
          /\ only_blocked' = [only_blocked EXCEPT ![w] = @ /\ Blocked(h, ProfileMarkers)]
    /\ fpc' = [fpc EXCEPT ![w] = "closing"]
    /\ UNCHANGED <<variant, urls, attempt, created, open_pages, fresult, wait, logmsg>>
    /\ UNCHANGED <<recon_vars, store_vars, coord_vars, pure_vars, walk_vars>>

\* await page.close() returns; then the blocking check and the validity probe
P_Close(w) ==
    /\ variant = "profile"
    /\ fpc[w] = "closing"
    /\ open_pages' = [open_pages EXCEPT ![w] = ClosePage(@)]
    /\ html' = [html EXCEPT ![w] = NoHtml]
    /\ IF Blocked(html[w], ProfileMarkers)
       THEN /\ wait' = [wait EXCEPT ![w] = BlockedWait(attempt[w])]
            /\ fpc' = [fpc EXCEPT ![w] = "sleep"]
            /\ logmsg' = [logmsg EXCEPT ![w] = "verification"]
            /\ UNCHANGED fresult
       ELSE IF ValidHtml(html[w])
       THEN /\ fresult' = [fresult EXCEPT ![w] = html[w]]
            /\ fpc' = [fpc EXCEPT ![w] = "returned"]
            /\ UNCHANGED <<wait, logmsg>>
       ELSE /\ wait' = [wait EXCEPT ![w] = 3 * (attempt[w] + 1)]
            /\ fpc' = [fpc EXCEPT ![w] = "sleep"]
            /\ logmsg' = [logmsg EXCEPT ![w] = "no data"]
            /\ UNCHANGED fresult
    /\ UNCHANGED <<variant, urls, attempt, created, only_blocked>>
    /\ UNCHANGED <<recon_vars, store_vars, coord_vars, pure_vars, walk_vars>>

\* await page.close() raises inside the try: the except clause finds the page
\* closed, drops the HTML and sleeps 3 * (attempt + 1)
P_CloseRaises(w) ==
    /\ variant = "profile"
    /\ fpc[w] = "closing"
    /\ open_pages' = [open_pages EXCEPT ![w] = ClosePage(@)]
    /\ html' = [html EXCEPT ![w] = NoHtml]
    /\ wait' = [wait EXCEPT ![w] = ErrorWait(attempt[w])]
    /\ fpc' = [fpc EXCEPT ![w] = "sleep"]
    /\ logmsg' = [logmsg EXCEPT ![w] = "error"]
    /\ UNCHANGED <<variant, urls, attempt, created, fresult, only_blocked>>
    /\ UNCHANGED <<recon_vars, store_vars, coord_vars, pure_vars, walk_vars>>

\* the sleep ends: next iteration of the for loop, or the loop is exhausted
\* and the function returns None
P_Wake(w) ==
    /\ variant = "profile"
    /\ fpc[w] = "sleep"
    /\ wait' = [wait EXCEPT ![w] = 0]
    /\ IF AttemptsLeft(attempt[w])
       THEN /\ attempt' = [attempt EXCEPT ![w] = @ + 1]
            /\ fpc' = [fpc EXCEPT ![w] = "new_page"]
            /\ UNCHANGED <<fresult, logmsg>>
       ELSE /\ fresult' = [fresult EXCEPT ![w] = NoHtml]
            /\ fpc' = [fpc EXCEPT ![w] = "returned"]
            /\ logmsg' = [logmsg EXCEPT ![w] = "failed"]
            /\ UNCHANGED attempt
    /\ UNCHANGED <<variant, urls, created, open_pages, html, only_blocked>>
    /\ UNCHANGED <<recon_vars, store_vars, coord_vars, pure_vars, walk_vars>>

scrape_profile_page(w) ==
    \/ P_NewPage(w)
    \/ P_NewPageRaises(w)
    \/ P_LoadRaises(w)
    \/ P_Loaded(w)
    \/ P_Close(w)
    \/ P_CloseRaises(w)
    \/ P_Wake(w)

\* ---- fixed_parsing_logic.py : fetch_page_html ----

F_NewPage(w) ==
    /\ variant = "fixed"
    /\ fpc[w] = "new_page"
    /\ created' = [created EXCEPT ![w] = @ + 1]
    /\ open_pages' = [open_pages EXCEPT ![w] = @ + 1]
    /\ fpc' = [fpc EXCEPT ![w] = "loading"]
    /\ UNCHANGED <<variant, urls, attempt, html, fresult, only_blocked, wait, logmsg>>
    /\ UNCHANGED <<recon_vars, store_vars, coord_vars, pure_vars, walk_vars>>

F_NewPageRaises(w) ==
    /\ variant = "fixed"
    /\ fpc[w] = "new_page"
    /\ fpc' = [fpc EXCEPT ![w] = "raised"]
    /\ only_blocked' = [only_blocked EXCEPT ![w] = FALSE]
    /\ UNCHANGED <<variant, urls, attempt, created, open_pages, html, fresult, wait, logmsg>>
    /\ UNCHANGED <<recon_vars, store_vars, coord_vars, pure_vars, walk_vars>>

\* goto / wait / evaluate / content raises: except closes, sleeps 3 * attempt
F_LoadRaises(w) ==
    /\ variant = "fixed"
    /\ fpc[w] = "loading"
    /\ open_pages' = [open_pages EXCEPT ![w] = ClosePage(@)]
    /\ wait' = [wait EXCEPT ![w] = 3 * attempt[w]]
    /\ fpc' = [fpc EXCEPT ![w] = "sleep"]
    /\ only_blocked' = [only_blocked EXCEPT ![w] = FALSE]
    /\ logmsg' = [logmsg EXCEPT ![w] = "error"]
    /\ UNCHANGED <<variant, urls, attempt, created, html, fresult>>
    /\ UNCHANGED <<recon_vars, store_vars, coord_vars, pure_vars, walk_vars>>

F_Loaded(w) ==
    /\ variant = "fixed"
    /\ fpc[w] = "loading"
    /\ \E h \in ProfilePages(UrlNo(w)) :
          /\ html' = [html EXCEPT ![w] = h]
          /\ only_blocked' = [only_blocked EXCEPT ![w] = @ /\ Blocked(h, ProfileMarkers)]
    /\ fpc' = [fpc EXCEPT ![w] = "closing"]
    /\ UNCHANGED <<variant, urls, attempt, created, open_pages, fresult, wait, logmsg>>
    /\ UNCHANGED <<recon_vars, store_vars, coord_vars, pure_vars, walk_vars>>

\* blocking check, then page.close() in either branch; no validity probe
F_Close(w) ==
    /\ variant = "fixed"
    /\ fpc[w] = "closing"
    /\ open_pages' = [open_pages EXCEPT ![w] = ClosePage(@)]
    /\ html' = [html EXCEPT ![w] = NoHtml]
    /\ IF Blocked(html[w], ProfileMarkers)
       THEN /\ wait' = [wait EXCEPT ![w] = 3 * attempt[w]]
            /\ fpc' = [fpc EXCEPT ![w] = "sleep"]
            /\ logmsg' = [logmsg EXCEPT ![w] = "verification"]
            /\ UNCHANGED fresult
       ELSE /\ fresult' = [fresult EXCEPT ![w] = html[w]]
            /\ fpc' = [fpc EXCEPT ![w] = "returned"]
            /\ UNCHANGED <<wait, logmsg>>
    /\ UNCHANGED <<variant, urls, attempt, created, only_blocked>>
    /\ UNCHANGED <<recon_vars, store_vars, coord_vars, pure_vars, walk_vars>>

F_CloseRaises(w) ==
    /\ variant = "fixed"
    /\ fpc[w] = "closing"
    /\ open_pages' = [open_pages EXCEPT ![w] = ClosePage(@)]
    /\ html' = [html EXCEPT ![w] = NoHtml]
    /\ wait' = [wait EXCEPT ![w] = 3 * attempt[w]]
    /\ fpc' = [fpc EXCEPT ![w] = "sleep"]
    /\ logmsg' = [logmsg EXCEPT ![w] = "error"]
    /\ UNCHANGED <<variant, urls, attempt, created, fresult, only_blocked>>
    /\ UNCHANGED <<recon_vars, store_vars, coord_vars, pure_vars, walk_vars>>

F_Wake(w) ==
    /\ variant = "fixed"
    /\ fpc[w] = "sleep"
    /\ wait' = [wait EXCEPT ![w] = 0]
    /\ IF AttemptsLeftFrom1(attempt[w])
       THEN /\ attempt' = [attempt EXCEPT ![w] = @ + 1]
            /\ fpc' = [fpc EXCEPT ![w] = "new_page"]
            /\ UNCHANGED <<fresult, logmsg>>
       ELSE /\ fresult' = [fresult EXCEPT ![w] = NoHtml]
            /\ fpc' = [fpc EXCEPT ![w] = "returned"]
            /\ logmsg' = [logmsg EXCEPT ![w] = "failed"]
            /\ UNCHANGED attempt
    /\ UNCHANGED <<variant, urls, created, open_pages, html, only_blocked>>
    /\ UNCHANGED <<recon_vars, store_vars, coord_vars, pure_vars, walk_vars>>

fetch_page_html(w) ==
    \/ F_NewPage(w)
    \/ F_NewPageRaises(w)
    \/ F_LoadRaises(w)
    \/ F_Loaded(w)
    \/ F_Close(w)
    \/ F_CloseRaises(w)
    \/ F_Wake(w)

\* ---- gmc_scraped_alphabetically.py : scrape_page ----

A_NewPage(w) ==
    /\ variant = "alpha"
    /\ fpc[w] = "new_page"
    /\ created' = [created EXCEPT ![w] = @ + 1]
    /\ open_pages' = [open_pages EXCEPT ![w] = @ + 1]
    /\ fpc' = [fpc EXCEPT ![w] = "loading"]
    /\ UNCHANGED <<variant, urls, attempt, html, fresult, only_blocked, wait, logmsg>>
    /\ UNCHANGED <<recon_vars, store_vars, coord_vars, pure_vars, walk_vars>>

A_NewPageRaises(w) ==
    /\ variant = "alpha"
    /\ fpc[w] = "new_page"
    /\ fpc' = [fpc EXCEPT ![w] = "raised"]
    /\ only_blocked' = [only_blocked EXCEPT ![w] = FALSE]
    /\ UNCHANGED <<variant, urls, attempt, created, open_pages, html, fresult, wait, logmsg>>
    /\ UNCHANGED <<recon_vars, store_vars, coord_vars, pure_vars, walk_vars>>

\* goto / wait / evaluate / content raises: the except clause sleeps 3 s; the
\* page is closed afterwards, by the finally clause
A_LoadRaises(w) ==
    /\ variant = "alpha"
    /\ fpc[w] = "loading"
    /\ wait' = [wait EXCEPT ![w] = 3]
    /\ fpc' = [fpc EXCEPT ![w] = "sleep"]
    /\ only_blocked' = [only_blocked EXCEPT ![w] = FALSE]
    /\ logmsg' = [logmsg EXCEPT ![w] = "error"]
    /\ UNCHANGED <<variant, urls, attempt, created, open_pages, html, fresult>>
    /\ UNCHANGED <<recon_vars, store_vars, coord_vars, pure_vars, walk_vars>>

A_Loaded(w) ==
    /\ variant = "alpha"
    /\ fpc[w] = "loading"
    /\ \E h \in ListingPages :
          /\ html' = [html EXCEPT ![w] = h]
          /\ only_blocked' = [only_blocked EXCEPT ![w] = @ /\ Blocked(h, ListingMarkers)]
    /\ fpc' = [fpc EXCEPT ![w] = "closing"]
    /\ UNCHANGED <<variant, urls, attempt, created, open_pages, fresult, wait, logmsg>>
    /\ UNCHANGED <<recon_vars, store_vars, coord_vars, pure_vars, walk_vars>>

\* await page.close() returns; blocking check (sleep 5, continue), then
\* parse_html: return the HTML, or sleep 3
A_Close(w) ==
    /\ variant = "alpha"
    /\ fpc[w] = "closing"
    /\ open_pages' = [open_pages EXCEPT ![w] = ClosePage(@)]
    /\ html' = [html EXCEPT ![w] = NoHtml]
    /\ IF Blocked(html[w], ListingMarkers)
       THEN /\ wait' = [wait EXCEPT ![w] = 5]
            /\ fpc' = [fpc EXCEPT ![w] = "sleep"]
            /\ logmsg' = [logmsg EXCEPT ![w] = "verification"]
            /\ UNCHANGED fresult
       ELSE IF parse_html(html[w]) > 0
       THEN /\ fresult' = [fresult EXCEPT ![w] = html[w]]
            /\ fpc' = [fpc EXCEPT ![w] = "returned"]
            /\ UNCHANGED <<wait, logmsg>>
       ELSE /\ wait' = [wait EXCEPT ![w] = 3]
            /\ fpc' = [fpc EXCEPT ![w] = "sleep"]
            /\ logmsg' = [logmsg EXCEPT ![w] = "no data"]
            /\ UNCHANGED fresult
    /\ UNCHANGED <<variant, urls, attempt, created, only_blocked>>
    /\ UNCHANGED <<recon_vars, store_vars, coord_vars, pure_vars, walk_vars>>

\* await page.close() raises inside the try: except sleeps 3 s
A_CloseRaises(w) ==
    /\ variant = "alpha"
    /\ fpc[w] = "closing"
    /\ open_pages' = [open_pages EXCEPT ![w] = ClosePage(@)]
    /\ html' = [html EXCEPT ![w] = NoHtml]
    /\ wait' = [wait EXCEPT ![w] = 3]
    /\ fpc' = [fpc EXCEPT ![w] = "sleep"]
    /\ logmsg' = [logmsg EXCEPT ![w] = "error"]
    /\ UNCHANGED <<variant, urls, attempt, created, fresult, only_blocked>>
    /\ UNCHANGED <<recon_vars, store_vars, coord_vars, pure_vars, walk_vars>>

\* the sleep ends; finally: `if not page.is_closed(): await page.close()`,
\* then the next iteration or `return None`
A_Finally(w) ==
    /\ variant = "alpha"
    /\ fpc[w] = "sleep"
    /\ wait' = [wait EXCEPT ![w] = 0]
    /\ open_pages' = [open_pages EXCEPT ![w] = IF @ > 0 THEN ClosePage(@) ELSE @]
    /\ IF AttemptsLeft(attempt[w])
       THEN /\ attempt' = [attempt EXCEPT ![w] = @ + 1]
            /\ fpc' = [fpc EXCEPT ![w] = "new_page"]
            /\ UNCHANGED <<fresult, logmsg>>
       ELSE /\ fresult' = [fresult EXCEPT ![w] = NoHtml]
            /\ fpc' = [fpc EXCEPT ![w] = "returned"]
            /\ logmsg' = [logmsg EXCEPT ![w] = "failed"]
            /\ UNCHANGED attempt
    /\ UNCHANGED <<variant, urls, created, html, only_blocked>>
    /\ UNCHANGED <<recon_vars, store_vars, coord_vars, pure_vars, walk_vars>>

\* the page.close() of the finally clause raises: nothing catches it, the
\* exception leaves scrape_page
A_FinallyRaises(w) ==
    /\ variant = "alpha"
    /\ fpc[w] = "sleep"
    /\ open_pages[w] > 0
    /\ wait' = [wait EXCEPT ![w] = 0]
    /\ open_pages' = [open_pages EXCEPT ![w] = ClosePage(@)]
    /\ fpc' = [fpc EXCEPT ![w] = "raised"]
    /\ UNCHANGED <<variant, urls, attempt, created, html, fresult, only_blocked, logmsg>>
    /\ UNCHANGED <<recon_vars, store_vars, coord_vars, pure_vars, walk_vars>>

scrape_page(w) ==
    \/ A_NewPage(w)
    \/ A_NewPageRaises(w)
    \/ A_LoadRaises(w)
    \/ A_Loaded(w)
    \/ A_Close(w)
    \/ A_CloseRaises(w)
    \/ A_Finally(w)
    \/ A_FinallyRaises(w)

\* ---- one call of a fetch function on one URL ----
InitFetch ==
    /\ ReconIdle
    /\ StoreIdle
    /\ PureIdle
    /\ WalkIdle
    /\ variant \in {"profile", "fixed", "alpha"}
    /\ urls = <<AllUrls[1]>>
    /\ fpc = [w \in Workers |-> IF w = 1 THEN "new_page" ELSE "idle"]
    /\ attempt = [w \in Workers |-> IF w = 1 /\ variant = "fixed" THEN 1 ELSE 0]
    /\ created = [w \in Workers |-> 0]
    /\ open_pages = [w \in Workers |-> 0]
    /\ html = [w \in Workers |-> NoHtml]
    /\ fresult = [w \in Workers |-> NoHtml]
    /\ only_blocked = [w \in Workers |-> TRUE]
    /\ wait = [w \in Workers |-> 0]
    /\ logmsg = [w \in Workers |-> ""]
    /\ cpc = "direct"
    /\ wpc = [w \in Workers |-> "idle"]
    /\ sem = MAX_CONCURRENT_PAGES
    /\ results = <<>>
    /\ progress = 0
    /\ idx = 1
    /\ out_file = <<>>

NextFetch ==
    \E w \in Workers : scrape_profile_page(w) \/ fetch_page_html(w) \/ scrape_page(w)

SpecFetch == InitFetch /\ [][NextFetch]_vars

\* two calls of scrape_profile_page in progress at once, as the semaphore of
\* the programs (MAX_CONCURRENT_PAGES = 6) allows
InitFetchTwo ==
    /\ ReconIdle
    /\ StoreIdle
    /\ PureIdle
    /\ WalkIdle
    /\ variant = "profile"
    /\ urls = <<AllUrls[1], AllUrls[2]>>
    /\ fpc = [w \in Workers |-> IF w \in DOMAIN urls THEN "new_page" ELSE "idle"]
    /\ attempt = [w \in Workers |-> 0]
    /\ created = [w \in Workers |-> 0]
    /\ open_pages = [w \in Workers |-> 0]
    /\ html = [w \in Workers |-> NoHtml]
    /\ fresult = [w \in Workers |-> NoHtml]
    /\ only_blocked = [w \in Workers |-> TRUE]
    /\ wait = [w \in Workers |-> 0]
    /\ logmsg = [w \in Workers |-> ""]
    /\ cpc = "direct"
    /\ wpc = [w \in Workers |-> "idle"]
    /\ sem = MAX_CONCURRENT_PAGES
    /\ results = <<>>
    /\ progress = 0
    /\ idx = 1
    /\ out_file = <<>>

NextFetchTwo == \E w \in Workers : scrape_profile_page(w)

SpecFetchTwo == InitFetchTwo /\ [][NextFetchTwo]_vars

(***************************************************************************)
(* profile_scraper.py / test.py : scrape_profiles, worker and main         *)
(***************************************************************************)
\* the record worker() builds from the HTML returned for its URL
TaggedRecord(h, url) == [parse_gp_profile(h) EXCEPT !.Profile_URL = Some(url)]

\* an append that writes back a list read before the other tasks appended
AppendIfHtml_LostUpdate(res, h, url) ==
    IF ~h.none THEN <<TaggedRecord(h, url)>> ELSE res

\* `if html:` followed by the append under results_lock
AppendIfHtml(res, h, url) ==
    IF ~h.none THEN Append(res, TaggedRecord(h, url)) ELSE res

\* a wait that is over as soon as one task has finished
AllTasksDone_Any == \E w \in 1..Len(urls) : wpc[w] = "done"

\* asyncio.gather(*tasks) returns once every task has finished
AllTasksDone == \A w \in 1..Len(urls) : wpc[w] = "done"

\* gather re-raises the exception of a task that raised
SomeTaskRaised == \E w \in 1..Len(urls) : wpc[w] = "failed"

\* single_rows = [to_single_row(r) for r in parsed]
SingleRowsOf(res) == [i \in 1..Len(res) |-> to_single_row(res[i])]

\* the locals of a fetch call are gone once the call is over; what it
\* returned and how it ended stay visible to the caller
EndCall(w) ==
    /\ attempt' = [attempt EXCEPT ![w] = 0]
    /\ created' = [created EXCEPT ![w] = 0]
    /\ html' = [html EXCEPT ![w] = NoHtml]
    /\ only_blocked' = [only_blocked EXCEPT ![w] = TRUE]
    /\ wait' = [wait EXCEPT ![w] = 0]
    /\ logmsg' = [logmsg EXCEPT ![w] = ""]
    /\ UNCHANGED <<variant, urls, fpc, open_pages, fresult>>

InitScrape ==
    /\ ReconIdle
    /\ StoreIdle
    /\ PureIdle
    /\ WalkIdle
    /\ variant = "profile"
    /\ \E n \in 0..NumUrls : urls = SubSeq(AllUrls, 1, n)
    /\ fpc = [w \in Workers |-> "idle"]
    /\ attempt = [w \in Workers |-> 0]
    /\ created = [w \in Workers |-> 0]
    /\ open_pages = [w \in Workers |-> 0]
    /\ html = [w \in Workers |-> NoHtml]
    /\ fresult = [w \in Workers |-> NoHtml]
    /\ only_blocked = [w \in Workers |-> TRUE]
    /\ wait = [w \in Workers |-> 0]
    /\ logmsg = [w \in Workers |-> ""]
    /\ cpc = "call"
    /\ wpc = [w \in Workers |-> "idle"]
    /\ sem = MAX_CONCURRENT_PAGES
    /\ results = <<>>
    /\ progress = 0
    /\ idx = 1
    /\ out_file = <<>>

\* scrape_profiles, lines 398-400: `if total == 0: return []`
C_ReturnEmpty ==
    /\ cpc = "call"
    /\ variant = "profile"
    /\ Len(urls) = 0
    /\ cpc' = "returned"
    /\ UNCHANGED <<wpc, sem, results, progress, idx, out_file>>
    /\ UNCHANGED <<recon_vars, store_vars, fetch_vars, pure_vars, walk_vars>>

\* scrape_profiles, lines 402-443: results, lock, semaphore, browser,
\* progress bar, one task per URL
C_Start ==
    /\ cpc = "call"
    /\ variant = "profile"
    /\ Len(urls) > 0
    /\ results' = <<>>
    /\ sem' = MAX_CONCURRENT_PAGES
    /\ progress' = 0
    /\ wpc' = [w \in Workers |-> IF w <= Len(urls) THEN "waiting" ELSE "idle"]
    /\ cpc' = "gather"
    /\ UNCHANGED <<idx, out_file>>
    /\ UNCHANGED <<recon_vars, store_vars, fetch_vars, pure_vars, walk_vars>>

\* a worker that starts its fetch without waiting for a free slot
W_Acquire_NoGate(w) ==
    /\ wpc[w] = "waiting"
    /\ sem' = sem - 1
    /\ wpc' = [wpc EXCEPT ![w] = "inside"]
    /\ fpc' = [fpc EXCEPT ![w] = "new_page"]
    /\ attempt' = [attempt EXCEPT ![w] = 0]
    /\ UNCHANGED <<variant, urls, created, open_pages, html, fresult, only_blocked,
                   wait, logmsg>>
    /\ UNCHANGED <<cpc, results, progress, idx, out_file>>
    /\ UNCHANGED <<recon_vars, store_vars, pure_vars, walk_vars>>

\* worker: `async with sem:` entered, scrape_profile_page called
W_Acquire(w) ==
    /\ wpc[w] = "waiting"
    /\ sem > 0
    /\ sem' = sem - 1
    /\ wpc' = [wpc EXCEPT ![w] = "inside"]
    /\ fpc' = [fpc EXCEPT ![w] = "new_page"]
    /\ attempt' = [attempt EXCEPT ![w] = 0]
    /\ UNCHANGED <<variant, urls, created, open_pages, html, fresult, only_blocked,
                   wait, logmsg>>
    /\ UNCHANGED <<cpc, results, progress, idx, out_file>>
    /\ UNCHANGED <<recon_vars, store_vars, pure_vars, walk_vars>>

\* worker, lines 431-441: scrape_profile_page returned; parse and append when
\* there is HTML, progress.update(1), leave the `async with sem`
W_Finish(w) ==
    /\ wpc[w] = "inside"
    /\ fpc[w] = "returned"
    /\ results' = AppendIfHtml(results, fresult[w], urls[w])
    /\ progress' = progress + 1
    /\ sem' = sem + 1
    /\ wpc' = [wpc EXCEPT ![w] = "done"]
    /\ EndCall(w)
    /\ UNCHANGED <<cpc, idx, out_file>>
    /\ UNCHANGED <<recon_vars, store_vars, pure_vars, walk_vars>>

\* worker: scrape_profile_page raised; the exception leaves the
\* `async with sem` (slot released) and ends the task
W_Raise(w) ==
    /\ wpc[w] = "inside"
    /\ fpc[w] = "raised"
    /\ sem' = sem + 1
    /\ wpc' = [wpc EXCEPT ![w] = "failed"]
    /\ EndCall(w)
    /\ UNCHANGED <<cpc, results, progress, idx, out_file>>
    /\ UNCHANGED <<recon_vars, store_vars, pure_vars, walk_vars>>

\* scrape_profiles, lines 444-449: gather returns, browser and bar are closed,
\* results returned
C_GatherReturns ==
    /\ cpc = "gather"
    /\ AllTasksDone
    /\ cpc' = "returned"
    /\ UNCHANGED <<wpc, sem, results, progress, idx, out_file>>
    /\ UNCHANGED <<recon_vars, store_vars, fetch_vars, pure_vars, walk_vars>>

\* gather raises the exception of a failed task: it leaves scrape_profiles and
\* main; asyncio.run cancels the tasks still pending
C_GatherRaises ==
    /\ cpc = "gather"
    /\ SomeTaskRaised
    /\ cpc' = "raised"
    /\ wpc' = [w \in Workers |->
                  IF wpc[w] \in {"waiting", "inside"} THEN "cancelled" ELSE wpc[w]]
    /\ fpc' = [w \in Workers |->
                  IF wpc[w] = "inside" THEN "cancelled" ELSE fpc[w]]
    /\ sem' = sem + Cardinality({w \in Workers : wpc[w] = "inside"})
    /\ attempt' = [w \in Workers |-> 0]
    /\ created' = [w \in Workers |-> 0]
    /\ html' = [w \in Workers |-> NoHtml]
    /\ only_blocked' = [w \in Workers |-> TRUE]
    /\ wait' = [w \in Workers |-> 0]
    /\ logmsg' = [w \in Workers |-> ""]
    /\ UNCHANGED <<variant, urls, open_pages, fresult>>
    /\ UNCHANGED <<results, progress, idx, out_file>>
    /\ UNCHANGED <<recon_vars, store_vars, pure_vars, walk_vars>>

\* the caller cancels the task awaiting scrape_profiles: gather cancels every
\* task not yet done; CancelledError is no Exception, so the except clause of
\* scrape_profile_page (line 382) does not run and the page of the attempt is
\* not closed by the worker; `async with sem` gives the slot back
C_Abort ==
    /\ cpc = "gather"
    /\ cpc' = "aborting"
    /\ wpc' = [w \in Workers |->
                  IF wpc[w] \in {"waiting", "inside"} THEN "cancelled" ELSE wpc[w]]
    /\ fpc' = [w \in Workers |->
                  IF wpc[w] = "inside" THEN "cancelled" ELSE fpc[w]]
    /\ sem' = sem + Cardinality({w \in Workers : wpc[w] = "inside"})
    /\ attempt' = [w \in Workers |-> 0]
    /\ created' = [w \in Workers |-> 0]
    /\ html' = [w \in Workers |-> NoHtml]
    /\ only_blocked' = [w \in Workers |-> TRUE]
    /\ wait' = [w \in Workers |-> 0]
    /\ logmsg' = [w \in Workers |-> ""]
    /\ UNCHANGED <<variant, urls, open_pages, fresult>>
    /\ UNCHANGED <<results, progress, idx, out_file>>
    /\ UNCHANGED <<recon_vars, store_vars, pure_vars, walk_vars>>

\* CancelledError leaves scrape_profiles at line 444: browser.close() and
\* `return results` are skipped, leaving `async with async_playwright()`
\* stops the driver and with it the browser and its pages
C_AbortUnwind ==
    /\ cpc = "aborting"
    /\ cpc' = "aborted"
    /\ open_pages' = [w \in Workers |-> 0]
    /\ UNCHANGED <<variant, urls, fpc, attempt, created, html, fresult, only_blocked,
                   wait, logmsg>>
    /\ UNCHANGED <<wpc, sem, results, progress, idx, out_file>>
    /\ UNCHANGED <<recon_vars, store_vars, pure_vars, walk_vars>>

\* what the caller of scrape_profiles holds: the list of line 449 once the
\* call has returned, nothing while it runs or after it raised
ReturnValue == IF cpc \in {"returned", "saved"} THEN results ELSE <<>>

\* main, lines 510-513: flatten, write_csv (skipped for no rows), write_sqlite
M_Persist ==
    /\ cpc = "returned"
    /\ variant = "profile"
    /\ Len(urls) > 0
    /\ out_file' = IF results = <<>> THEN out_file ELSE SingleRowsOf(results)
    /\ write_sqlite(SingleRowsOf(results))
    /\ cpc' = "saved"
    /\ UNCHANGED <<wpc, sem, results, progress, idx>>
    /\ UNCHANGED <<recon_vars, fetch_vars, pure_vars, walk_vars>>

NextScrape ==
    \/ C_ReturnEmpty
    \/ C_Start
    \/ \E w \in Workers : W_Acquire(w) \/ scrape_profile_page(w) \/ W_Finish(w) \/ W_Raise(w)
    \/ C_GatherReturns
    \/ C_GatherRaises
    \/ C_Abort
    \/ C_AbortUnwind
    \/ M_Persist

SpecScrape == InitScrape /\ [][NextScrape]_vars

(***************************************************************************)
(* fixed_parsing_logic.py : the sequential scrape_profiles and main        *)
(***************************************************************************)
InitFixed ==
    /\ ReconIdle
    /\ StoreIdle
    /\ PureIdle
    /\ WalkIdle
    /\ variant = "fixed"
    /\ \E n \in 0..NumUrls : urls = SubSeq(AllUrls, 1, n)
    /\ fpc = [w \in Workers |-> "idle"]
    /\ attempt = [w \in Workers |-> 0]
    /\ created = [w \in Workers |-> 0]
    /\ open_pages = [w \in Workers |-> 0]
    /\ html = [w \in Workers |-> NoHtml]
    /\ fresult = [w \in Workers |-> NoHtml]
    /\ only_blocked = [w \in Workers |-> TRUE]
    /\ wait = [w \in Workers |-> 0]
    /\ logmsg = [w \in Workers |-> ""]
    /\ cpc = "call"
    /\ wpc = [w \in Workers |-> "idle"]
    /\ sem = MAX_CONCURRENT_PAGES
    /\ results = <<>>
    /\ progress = 0
    /\ idx = 1
    /\ out_file = <<>>

\* scrape_profiles, lines 216-232
S_Start ==
    /\ cpc = "call"
    /\ variant = "fixed"
    /\ results' = <<>>
    /\ idx' = 1
    /\ cpc' = "loop"
    /\ UNCHANGED <<wpc, sem, progress, out_file>>
    /\ UNCHANGED <<recon_vars, store_vars, fetch_vars, pure_vars, walk_vars>>

\* `for url in urls:` ... `html = await fetch_page_html(context, url)`
S_Call ==
    /\ cpc = "loop"
    /\ idx <= Len(urls)
    /\ fpc[idx] = "idle"
    /\ fpc' = [fpc EXCEPT ![idx] = "new_page"]
    /\ attempt' = [attempt EXCEPT ![idx] = 1]
    /\ UNCHANGED <<variant, urls, created, open_pages, html, fresult, only_blocked,
                   wait, logmsg>>
    /\ UNCHANGED <<recon_vars, store_vars, coord_vars, pure_vars, walk_vars>>

\* lines 237-242: append the parsed record when there is HTML
S_AfterFetch ==
    /\ cpc = "loop"
    /\ idx <= Len(urls)
    /\ fpc[idx] = "returned"
    /\ results' = AppendIfHtml(results, fresult[idx], urls[idx])
    /\ idx' = idx + 1
    /\ EndCall(idx)
    /\ UNCHANGED <<cpc, wpc, sem, progress, out_file>>
    /\ UNCHANGED <<recon_vars, store_vars, pure_vars, walk_vars>>

\* fetch_page_html raised (context.new_page): the exception leaves
\* scrape_profiles
S_FetchRaised ==
    /\ cpc = "loop"
    /\ idx <= Len(urls)
    /\ fpc[idx] = "raised"
    /\ cpc' = "raised"
    /\ EndCall(idx)
    /\ UNCHANGED <<wpc, sem, results, progress, idx, out_file>>
    /\ UNCHANGED <<recon_vars, store_vars, pure_vars, walk_vars>>

\* lines 244-245: the loop is over, `return results`
S_Return ==
    /\ cpc = "loop"
    /\ idx > Len(urls)
    /\ cpc' = "returned"
    /\ UNCHANGED <<wpc, sem, results, progress, idx, out_file>>
    /\ UNCHANGED <<recon_vars, store_vars, fetch_vars, pure_vars, walk_vars>>

\* main, lines 249-251: json.dump(data) into OUT_JSON
S_Dump ==
    /\ cpc = "returned"
    /\ variant = "fixed"
    /\ out_file' = results
    /\ cpc' = "saved"
    /\ UNCHANGED <<wpc, sem, results, progress, idx>>
    /\ UNCHANGED <<recon_vars, store_vars, fetch_vars, pure_vars, walk_vars>>

NextFixed ==
    \/ S_Start
    \/ S_Call
    \/ \E w \in Workers : fetch_page_html(w)
    \/ S_AfterFetch
    \/ S_FetchRaised
    \/ S_Return
    \/ S_Dump

SpecFixed == InitFixed /\ [][NextFixed]_vars

(***************************************************************************)
(* profile_scraper.py : load_target_urls_from_db                           *)
(*                                                                         *)
(* A URL is a sequence of characters; the site origin                      *)
(* "https://www.gmc-uk.org" is carried as one character of that sequence.  *)
(* The input file is [kind, rows]: kind is "csv", "sqlite" or "missing",   *)
(* every row holds the Profile_URL cell (NULL, or a text) and, for the     *)
(* database, the Registration_Status cell.                                 *)
(***************************************************************************)
\* longest input (rows of the CSV file or of table gmc_data)
MaxUrlRows == 3

ORIGIN == <<"https://www.gmc-uk.org">>

LICENSED == "Registered with a licence to practise"

\* characters removed by Python's str.strip()
PyWhitespace == {" ", "\t"}

RECURSIVE py_lstrip(_)
py_lstrip(s) ==
    IF s # <<>> /\ Head(s) \in PyWhitespace THEN py_lstrip(Tail(s)) ELSE s

RECURSIVE py_rstrip(_)
py_rstrip(s) ==
    IF s # <<>> /\ s[Len(s)] \in PyWhitespace
    THEN py_rstrip(SubSeq(s, 1, Len(s) - 1))
    ELSE s

\* str.strip()
py_strip(s) == py_rstrip(py_lstrip(s))

\* str.startswith("/")
startswith_slash(s) == s # <<>> /\ Head(s) = "/"

\* a cell of the input: NULL / None, or a text
NoUrl == [null |-> TRUE, s |-> <<>>]

Url(s) == [null |-> FALSE, s |-> s]

\* `not url` of Python for a cell: None or the empty string
UrlFalsy(c) == c.null \/ c.s = <<>>

\* _normalize with the origin left out
normalize_NoOrigin(c) ==
    IF UrlFalsy(c) THEN <<>> ELSE py_strip(c.s)

\* _normalize: strip, then make a relative URL absolute
normalize(c) ==
    IF UrlFalsy(c)
    THEN <<>>
    ELSE LET url == py_strip(c.s)
         IN  IF startswith_slash(url) THEN ORIGIN \o url ELSE url

\* the body of `for x in items` of _unique_preserve_order, with `out` so far
RECURSIVE unique_from(_, _)
unique_from(items, out) ==
    IF items = <<>>
    THEN out
    ELSE LET x == py_strip(Head(items))
         IN  unique_from(Tail(items),
                         IF x # <<>> /\ x \notin Range(out)
                         THEN Append(out, x)
                         ELSE out)

\* _unique_preserve_order (the set `seen` always holds the members of `out`)
unique_preserve_order(items) == unique_from(items, <<>>)

\* the two identical loops `for row in reader` / `for r in rows`
RECURSIVE collect_urls(_)
collect_urls(cells) ==
    IF cells = <<>>
    THEN <<>>
    ELSE LET c == Head(cells)
             rest == collect_urls(Tail(cells))
         IN  IF UrlFalsy(c)
             THEN rest
             ELSE IF normalize(c) # <<>> THEN <<normalize(c)>> \o rest ELSE rest

\* the rows of gmc_data that satisfy the WHERE clause, in rowid order
RECURSIVE where_licensed(_)
where_licensed(rows) ==
    IF rows = <<>>
    THEN <<>>
    ELSE IF ~Head(rows).url.null /\ Head(rows).status = LICENSED
         THEN <<Head(rows).url>> \o where_licensed(Tail(rows))
         ELSE where_licensed(Tail(rows))

\* SELECT DISTINCT over a table without an index: SQLite emits each value
\* the first time the scan meets it
RECURSIVE select_distinct(_, _)
select_distinct(cells, out) ==
    IF cells = <<>>
    THEN out
    ELSE select_distinct(Tail(cells),
                         IF Head(cells) \in Range(out)
                         THEN out
                         ELSE Append(out, Head(cells)))

\* the value load_target_urls_from_db returns for a file
load_target_urls_from_db(file) ==
    IF file.kind = "missing"
    THEN <<>>
    ELSE IF file.kind = "csv"
    THEN unique_preserve_order(
             collect_urls([i \in 1..Len(file.rows) |-> file.rows[i].url]))
    ELSE unique_preserve_order(
             collect_urls(select_distinct(where_licensed(file.rows), <<>>)))

\* the cells the input rows are drawn from
UrlCells ==
    { NoUrl,
      Url(<<>>),
      Url(<<" ">>),
      Url(<<"/", "5">>),
      Url(<<" ", "/", "5", "\t">>),
      Url(ORIGIN \o <<"/", "5">>),
      Url(ORIGIN \o <<"/", "5", " ">>),
      Url(<<"/", "6">>) }

StatusCells == {LICENSED, "Not registered"}

CsvRows == [url : UrlCells, status : {""}]

DbRows == [url : UrlCells, status : StatusCells]

InitLoad ==
    /\ ReconIdle
    /\ StoreIdle
    /\ ScrapeIdle
    /\ WalkIdle
    /\ \/ db_file = [kind |-> "missing", rows |-> <<>>]
       \/ \E n \in 0..MaxUrlRows : \E rows \in [1..n -> CsvRows] :
              db_file = [kind |-> "csv", rows |-> rows]
       \/ \E n \in 0..MaxUrlRows : \E rows \in [1..n -> DbRows] :
              db_file = [kind |-> "sqlite", rows |-> rows]
    /\ target_urls = <<>>
    /\ lpc = "start"
    /\ doc = NoPage
    /\ parsed = <<>>
    /\ ppc = "idle"

\* one call of load_target_urls_from_db(DB_PATH)
LoadTargetUrls ==
    /\ lpc = "start"
    /\ target_urls' = load_target_urls_from_db(db_file)
    /\ lpc' = "returned"
    /\ UNCHANGED <<db_file, doc, parsed, ppc>>
    /\ UNCHANGED <<recon_vars, store_vars, scrape_vars, walk_vars>>

NextLoad == LoadTargetUrls

SpecLoad == InitLoad /\ [][NextLoad]_vars

(***************************************************************************)
(* profile_scraper.py : the label-anchored fields and the registration     *)
(* history of parse_gp_profile                                             *)
(*                                                                         *)
(* A document is [blocks, tables].  blocks gives, for each of the six      *)
(* label-anchored fields, how the page renders it:                         *)
(*   "absent"  nothing                                                     *)
(*   "plain"   the label line, the value line                              *)
(*   "helped"  the label line, the helper sentence, the value line         *)
(*   "empty"   the label line alone                                        *)
(*   "orphan"  the helper sentence alone                                   *)
(* tables is the list of the tables, a table the list of its rows, a row   *)
(* the list of the texts of its td cells.  soup.get_text("\n", strip=True) *)
(* gives the lines of the blocks in page order, then the non-empty cells.  *)
(***************************************************************************)
\* most tables of a document, and most rows of a table
MaxTables == 2

MaxTableRows == 2

NOISE_PREFIXES ==
    {"The organisation responsible for a registrant's revalidation",
     "The senior doctor who oversees a registrant's revalidation",
     "The qualification accepted for registration",
     "The date we first granted the doctor full registration",
     "The type of profession in which the registrant works",
     "Registration and licensing history"}

LABELS ==
    {"Profession", "Registered qualification", "Full registration date",
     "Designated body", "Responsible officer", "Gender", "GP Register",
     "Specialist Register"}

\* the label-anchored fields in the order parse_gp_profile extracts them,
\* which is also their order on the page
Fields ==
    <<"Profession", "Registered qualification", "Full registration date",
      "Gender", "Designated body", "Responsible officer">>

FieldSet == Range(Fields)

\* the key of data[...] a field is stored under
KeyOf(f) ==
    CASE f = "Profession" -> "Profession"
      [] f = "Registered qualification" -> "Registered_Qualification"
      [] f = "Full registration date" -> "Full_Registration_Date"
      [] f = "Gender" -> "Gender"
      [] f = "Designated body" -> "Designated_Body"
      [] f = "Responsible officer" -> "Responsible_Officer"

\* the line a page renders as the label of a field
LabelLine(f) == IF f = "Gender" THEN " Gender" ELSE f

\* the value a page renders for a field
ValueLine(f) ==
    CASE f = "Profession" -> "Doctor"
      [] f = "Registered qualification" -> "MB BS 2000 University of London"
      [] f = "Full registration date" -> "01 Aug 2001"
      [] f = "Gender" -> "Woman"
      [] f = "Designated body" -> "NHS  England"
      [] f = "Responsible officer" -> "John Smith"

\* the sentence under the label (Gender has none: a blank line instead)
HelperLine(f) ==
    CASE f = "Profession" -> "The type of profession in which the registrant works"
      [] f = "Registered qualification" -> "The qualification accepted for registration"
      [] f = "Full registration date" ->
             "The date we first granted the doctor full registration"
      [] f = "Gender" -> ""
      [] f = "Designated body" ->
             "The organisation responsible for a registrant's revalidation"
      [] f = "Responsible officer" ->
             "The senior doctor who oversees a registrant's revalidation"

Shapes == {"absent", "plain", "helped", "empty", "orphan"}

BlockLines(f, shape) ==
    CASE shape = "absent" -> <<>>
      [] shape = "plain" -> <<LabelLine(f), ValueLine(f)>>
      [] shape = "helped" -> <<LabelLine(f), HelperLine(f), ValueLine(f)>>
      [] shape = "empty" -> <<LabelLine(f)>>
      [] shape = "orphan" -> <<HelperLine(f)>>

RECURSIVE Concat(_)
Concat(ss) == IF ss = <<>> THEN <<>> ELSE Head(ss) \o Concat(Tail(ss))

\* the texts of the cells of a table or of a row list that are not empty
CellLines(tables) ==
    SelectSeq(Concat(Concat(tables)), LAMBDA c : c # "")

\* soup.get_text("\n", strip=True), as the list of its lines
FullText(d) ==
    Concat([i \in 1..Len(Fields) |-> BlockLines(Fields[i], d.blocks[Fields[i]])])
        \o CellLines(d.tables)

\* normalize_text: runs of spaces and tabs become one space
normalize_text(l) == IF l = "NHS  England" THEN "NHS England" ELSE l

\* str.strip() of a line
strip_line(l) == IF l = " Gender" THEN "Gender" ELSE l

\* any(line.startswith(p) for p in NOISE_PREFIXES); the lines of the model
\* that start with a prefix are the prefixes themselves
StartsWithNoise(line) == line \in NOISE_PREFIXES

\* the least member of a non-empty set of indices
Least(S) == CHOOSE i \in S : \A j \in S : i <= j

\* a scan that takes the first line that is not blank
next_meaningful_line_FirstNonBlank(lines, start_idx, stop_set) ==
    LET J == {j \in (start_idx + 1)..Len(lines) : strip_line(lines[j]) # ""}
    IN  IF J = {} THEN None ELSE Some(strip_line(lines[Least(J)]))

\* next_meaningful_line(lines, start_idx, stop_labels)
next_meaningful_line(lines, start_idx, stop_set) ==
    LET Meaningful(j) ==
            LET line == strip_line(lines[j])
            IN  /\ line # ""
                /\ ~StartsWithNoise(line)
                /\ line \notin stop_set \cup LABELS
        J == {j \in (start_idx + 1)..Len(lines) : Meaningful(j)}
    IN  IF J = {} THEN None ELSE Some(strip_line(lines[Least(J)]))

\* get_label_value(full_text, label, stop_labels)
get_label_value(full_text, label, stop_set) ==
    LET lines == [i \in 1..Len(full_text) |-> normalize_text(full_text[i])]
        I == {i \in 1..Len(lines) :
                 /\ strip_line(lines[i]) = label
                 /\ Truthy(next_meaningful_line(lines, i, stop_set))}
    IN  IF I = {}
        THEN None
        ELSE Some(strip_line(next_meaningful_line(lines, Least(I), stop_set).s))

\* the longest prefix of a line made of letters and spaces, stripped
LettersPrefix(l) ==
    CASE l = "MB BS 2000 University of London" -> "MB BS"
      [] l \in {"01 Aug 2001", "02 Feb 2002", "03 Mar 2003"} -> ""
      [] l = "The organisation responsible for a registrant's revalidation" ->
             "The organisation responsible for a registrant"
      [] l = "The senior doctor who oversees a registrant's revalidation" ->
             "The senior doctor who oversees a registrant"
      [] OTHER -> strip_line(l)

\* the first \w+ of a line if the line starts with it
FirstWord(l) ==
    CASE l = "MB BS 2000 University of London" -> "MB"
      [] l = "01 Aug 2001" -> "01"
      [] l = "02 Feb 2002" -> "02"
      [] l = "03 Mar 2003" -> "03"
      [] l = "NHS  England" -> "NHS"
      [] l = "John Smith" -> "John"
      [] l = "Registered qualification" -> "Registered"
      [] l = "Full registration date" -> "Full"
      [] l = "Designated body" -> "Designated"
      [] l = "Responsible officer" -> "Responsible"
      [] l \in NOISE_PREFIXES -> IF l = "Registration and licensing history"
                                 THEN "Registration" ELSE "The"
      [] OTHER -> strip_line(l)

\* the [0-9]{2}\s\w{3}\s[0-9]{4} a line starts with
DatePrefix(l) ==
    IF l \in {"01 Aug 2001", "02 Feb 2002", "03 Mar 2003"} THEN l ELSE ""

\* group 1 of the pattern of field f when the text after `label\s+` is l
Capture(f, l) ==
    LET g == CASE f = "Profession" -> LettersPrefix(l)
               [] f = "Gender" -> FirstWord(l)
               [] f = "Full registration date" -> DatePrefix(l)
               [] OTHER -> strip_line(l)
    IN  IF g = "" THEN None ELSE Some(g)

\* what follows the label of f inside the line, when the line holds the
\* label (in any letter case) followed by a space
InlineRest(l, f) ==
    IF f = "Profession"
       /\ l = "The type of profession in which the registrant works"
    THEN "in which the registrant works"
    ELSE ""

\* the line ends with the label of f
EndsWithLabel(l, f) == strip_line(l) = f

\* extract_with_regex(full_text, pattern of field f): the leftmost place
\* where the label is followed by whitespace and by a text the group accepts
extract_with_regex(full_text, f) ==
    LET Match(i) ==
            IF InlineRest(full_text[i], f) # ""
            THEN Capture(f, InlineRest(full_text[i], f))
            ELSE IF EndsWithLabel(full_text[i], f)
            THEN LET J == {j \in (i + 1)..Len(full_text) : full_text[j] # ""}
                 IN  IF J = {} THEN None ELSE Capture(f, full_text[Least(J)])
            ELSE None
        I == {i \in 1..Len(full_text) : ~Match(i).none}
    IN  IF I = {} THEN None ELSE Match(Least(I))

\* stop_labels of the get_label_value call of a field
StopLabels(f) ==
    IF f = "Registered qualification"
    THEN {"The qualification accepted for registration"}
    ELSE {}

\* the value parse_gp_profile stores for a label-anchored field
FieldValue(full_text, f) ==
    LET v == get_label_value(full_text, f, StopLabels(f))
    IN  IF Truthy(v) THEN v ELSE extract_with_regex(full_text, f)

\* the triples of the rows of one table that have exactly three td cells
RECURSIVE TriplesOf(_)
TriplesOf(rows) ==
    IF rows = <<>>
    THEN <<>>
    ELSE LET cols == Head(rows)
         IN  IF Len(cols) = 3
             THEN <<[From |-> cols[1], To |-> cols[2], Status |-> cols[3]]>>
                      \o TriplesOf(Tail(rows))
             ELSE TriplesOf(Tail(rows))

\* the history loop without `if history: break`
RECURSIVE RegistrationHistory_AllTables(_)
RegistrationHistory_AllTables(tables) ==
    IF tables = <<>>
    THEN <<>>
    ELSE TriplesOf(Head(tables)) \o RegistrationHistory_AllTables(Tail(tables))

\* `for table in soup.find_all("table")` ... `if history: break`
RECURSIVE RegistrationHistory(_)
RegistrationHistory(tables) ==
    IF tables = <<>>
    THEN <<>>
    ELSE IF TriplesOf(Head(tables)) # <<>>
    THEN TriplesOf(Head(tables))
    ELSE RegistrationHistory(Tail(tables))

\* the part of the record parse_gp_profile builds from labels and tables
parse_document(d) ==
    [Profession               |-> FieldValue(FullText(d), "Profession"),
     Registered_Qualification |-> FieldValue(FullText(d), "Registered qualification"),
     Full_Registration_Date   |-> FieldValue(FullText(d), "Full registration date"),
     Gender                   |-> FieldValue(FullText(d), "Gender"),
     Designated_Body          |-> FieldValue(FullText(d), "Designated body"),
     Responsible_Officer      |-> FieldValue(FullText(d), "Responsible officer"),
     Registration_History     |-> RegistrationHistory(d.tables)]

\* rows a table of the model can hold: two cells, or three
RowChoices ==
    {<<"02 Feb 2002", "Provisional">>,
     <<"02 Feb 2002", "03 Mar 2003", "Provisional">>,
     <<"03 Mar 2003", "", "Full">>}

TableChoices == UNION {[1..n -> RowChoices] : n \in 0..MaxTableRows}

TableLists == UNION {[1..n -> TableChoices] : n \in 0..MaxTables}

\* one table of one three-cell row
OneRowHistory == <<<<<<"02 Feb 2002", "", "Full">>>>>>

\* a page with every field in its place
AllPlain == [f \in FieldSet |-> "plain"]

InitParse ==
    /\ ReconIdle
    /\ StoreIdle
    /\ ScrapeIdle
    /\ WalkIdle
    /\ db_file = [kind |-> "none", rows |-> <<>>]
    /\ target_urls = <<>>
    /\ lpc = "idle"
    /\ \/ \E b \in [FieldSet -> Shapes] : \E t \in {<<>>, OneRowHistory} :
              doc = [blocks |-> b, tables |-> t]
       \/ \E t \in TableLists : doc = [blocks |-> AllPlain, tables |-> t]
    /\ parsed = <<>>
    /\ ppc = "start"

\* one call of parse_gp_profile(html)
ParseGpProfile ==
    /\ ppc = "start"
    /\ parsed' = parse_document(doc)
    /\ ppc' = "returned"
    /\ UNCHANGED <<db_file, target_urls, lpc, doc>>
    /\ UNCHANGED <<recon_vars, store_vars, scrape_vars, walk_vars>>

NextParse == ParseGpProfile

SpecParse == InitParse /\ [][NextParse]_vars

(***************************************************************************)
(* profile_scraper.py : the register flags of parse_gp_profile             *)
(***************************************************************************)
\* longest page of the model, in elements
MaxElems == 3

\* the date of the model, one token matched by [0-9]{2}\s\w{3}\s[0-9]{4}
DateTokens == {"01 Jan 2010", "02 Feb 2012"}

\* str.lower() on the words of the model
LowerWord(w) ==
    CASE w = "This" -> "this"
      [] w = "GP" -> "gp"
      [] w = "Register" -> "register"
      [] w = "Specialist" -> "specialist"
      [] w = "From" -> "from"
      [] w = "Cardiology" -> "cardiology"
      [] w = "01 Jan 2010" -> "01 jan 2010"
      [] w = "02 Feb 2012" -> "02 feb 2012"
      [] OTHER -> w

LowerWords(ws) == [i \in 1..Len(ws) |-> LowerWord(ws[i])]

\* the elements of a page: text nodes, and the span of an li of
\* ul.speciality-list (li = TRUE); a text is the sequence of its words
PageElems ==
    {[li |-> FALSE, s |-> <<"This", "doctor", "is", "on", "the", "GP", "Register">>],
     [li |-> FALSE, s |-> <<"This", "doctor", "is", "not", "on", "the", "GP", "Register">>],
     [li |-> FALSE, s |-> <<"This", "doctor", "is", "on", "the", "Specialist", "Register">>],
     [li |-> FALSE, s |-> <<"From", "01 Jan 2010">>],
     [li |-> TRUE,  s |-> <<"Cardiology", "from", "02 Feb 2012">>],
     [li |-> TRUE,  s |-> <<"Cardiology">>]}

Pages == UNION {[1..n -> PageElems] : n \in 0..MaxElems}

\* soup.get_text("\n", strip=True): the texts of the elements joined by "\n"
RECURSIVE PageText(_)
PageText(page) ==
    IF page = <<>> THEN <<>>
    ELSE IF Len(page) = 1 THEN page[1].s
    ELSE page[1].s \o <<"\n">> \o PageText(Tail(page))

\* the positions of text where the phrase starts
Occurrences(text, phrase) ==
    {p \in 1..(Len(text) - Len(phrase) + 1) :
        SubSeq(text, p, p + Len(phrase) - 1) = phrase}

\* phrase in text
Contains(text, phrase) == Occurrences(text, phrase) # {}

\* extract_with_regex(full_text, r"GP Register.*?From\s+(date)") under
\* re.S | re.I: from the first "GP Register" that has a "From <date>" behind
\* it, the date of the nearest one (\s+ also spans a line break)
DatesBehind(text, p) ==
    {q \in (p + 2)..Len(text) :
        /\ LowerWord(text[q]) = "from"
        /\ \E d \in (q + 1)..Len(text) :
              /\ text[d] \in DateTokens
              /\ \A k \in (q + 1)..(d - 1) : text[k] = "\n"}

DateOf(text, q) ==
    text[CHOOSE d \in (q + 1)..Len(text) :
            /\ text[d] \in DateTokens
            /\ \A k \in (q + 1)..(d - 1) : text[k] = "\n"]

gp_since_regex(full_text) ==
    LET starts == {p \in Occurrences(LowerWords(full_text), <<"gp", "register">>) :
                      DatesBehind(full_text, p) # {}}
    IN  IF starts = {} THEN None
        ELSE LET p == Least(starts)
                 q == Least(DatesBehind(full_text, p))
             IN  Some(DateOf(full_text, q))

\* parse_specialties: "[text]" of every span with 'from' in its lower text
RECURSIVE parse_specialties(_)
parse_specialties(page) ==
    IF page = <<>> THEN <<>>
    ELSE LET e == page[1]
             rest == parse_specialties(Tail(page))
         IN  IF e.li /\ Contains(LowerWords(e.s), <<"from">>)
             THEN <<<<"[">> \o e.s \o <<"]">>>> \o rest
             ELSE rest

\* "Since": since if on_gp else None
GpSince_Ungated(on_gp, since) == since

GpSince(on_gp, since) == IF on_gp THEN since ELSE None

\* the GP_Register and Specialist_Register entries of parse_gp_profile
parse_registers(page) ==
    LET full_text == PageText(page)
        on_gp == Contains(full_text, <<"This", "doctor", "is", "on", "the", "GP", "Register">>)
        since == gp_since_regex(full_text)
        specialties == parse_specialties(page)
        on_spec == \/ Contains(full_text, <<"This", "doctor", "is", "on", "the",
                                            "Specialist", "Register">>)
                   \/ specialties # <<>>
    IN  [GP_Register |-> [On_Register |-> on_gp, Since |-> GpSince(on_gp, since)],
         Specialist_Register |-> [On_Register |-> on_spec, Specialties |-> specialties]]

InitRegisters ==
    /\ ReconIdle
    /\ StoreIdle
    /\ ScrapeIdle
    /\ WalkIdle
    /\ db_file = [kind |-> "none", rows |-> <<>>]
    /\ target_urls = <<>>
    /\ lpc = "idle"
    /\ doc \in Pages
    /\ parsed = <<>>
    /\ ppc = "start"

\* parse_gp_profile(html) up to the register entries
ParseRegisters ==
    /\ ppc = "start"
    /\ parsed' = parse_registers(doc)
    /\ ppc' = "parsed"
    /\ UNCHANGED <<db_file, target_urls, lpc, doc>>
    /\ UNCHANGED <<recon_vars, store_vars, scrape_vars, walk_vars>>

\* to_single_row(rec) of the parsed record
FlattenRegisters ==
    /\ ppc = "parsed"
    /\ parsed' = [rec |-> parsed,
                  row |-> to_single_row([ParsedRecord(Some("1234567"), 0, "u")
                             EXCEPT !.GP_Register = parsed.GP_Register,
                                    !.Specialist_Register = parsed.Specialist_Register])]
    /\ ppc' = "flattened"
    /\ UNCHANGED <<db_file, target_urls, lpc, doc>>
    /\ UNCHANGED <<recon_vars, store_vars, scrape_vars, walk_vars>>

NextRegisters == ParseRegisters \/ FlattenRegisters

SpecRegisters == InitRegisters /\ [][NextRegisters]_vars

(***************************************************************************)
(* gmc_scraped_alphabetically.py : scrape_letter                           *)
(***************************************************************************)
\* most result pages of a letter
MaxPages == 4

\* most records on one result page
MaxPageRecs == 2

\* pages fetched in one batch of asyncio.gather (6 in the source, scaled to
\* the page numbers of the model)
CONCURRENCY == 2

\* get_total_pages: total_records // 50 plus one for a remainder, or 1 when
\* the page has no "Showing a-b of N"
get_total_pages(shown) ==
    IF shown.none THEN 1
    ELSE (shown.n \div 50) + (IF shown.n % 50 # 0 THEN 1 ELSE 0)

\* the "Showing a-b of N" lines of the model: none, and the totals around the
\* page size for up to MaxPages pages
ShowingChoices ==
    {[none |-> TRUE, n |-> 0]}
        \cup {[none |-> FALSE, n |-> 50 * k + r] :
                 k \in 0..(MaxPages - 1), r \in {0, 1, 50}}

\* the records parse_html finds on page p holding n rows: record k of page p
RecordsOfPage(p, n) == [k \in 1..n |-> [page |-> p, row |-> k]]

\* `for html in results: if html: buffer.extend(parse_html(html))` over the
\* pages from..to: the records of the pages scrape_page returned, in page
\* order (a page that failed every attempt gives None and adds nothing)
RECURSIVE GatherRecords(_, _, _, _)
GatherRecords(ok, recs, from, to) ==
    IF from > to THEN <<>>
    ELSE (IF ok[from] THEN recs[from] ELSE <<>>)
            \o GatherRecords(ok, recs, from + 1, to)

Min2(a, b) == IF a < b THEN a ELSE b

InitLetter ==
    /\ ReconIdle
    /\ StoreIdle
    /\ ScrapeIdle
    /\ PureIdle
    /\ showing \in ShowingChoices
    /\ \E cnt \in [1..MaxPages -> 1..MaxPageRecs] :
          page_recs = [p \in 1..MaxPages |-> RecordsOfPage(p, cnt[p])]
    /\ page_ok \in [1..MaxPages -> BOOLEAN]
    /\ total_pages = 0
    /\ buffer = <<>>
    /\ all_data = <<>>
    /\ gmc_data = <<>>
    /\ start = 0
    /\ reported = -1
    /\ slpc = "start"
    /\ id_pages = <<>>
    /\ max_ids = 0
    /\ max_consecutive_invalid = 0
    /\ visited = 0
    /\ valid_count = 0
    /\ invalid_count = 0
    /\ csv_file = <<>>
    /\ totals = <<>>
    /\ gpc = "idle"

\* scrape_page of the first URL returned None: return []; main prints 0
SL_FirstPageFails ==
    /\ slpc = "start"
    /\ ~page_ok[1]
    /\ reported' = Len(all_data)
    /\ slpc' = "returned"
    /\ UNCHANGED <<showing, page_recs, page_ok, total_pages, buffer, all_data,
                   gmc_data, start>>
    /\ UNCHANGED <<recon_vars, store_vars, scrape_vars, pure_vars, ids_vars>>

\* the first page: total_pages, buffer = parse_html(html),
\* all_data = buffer.copy()
SL_FirstPage ==
    /\ slpc = "start"
    /\ page_ok[1]
    /\ total_pages' = get_total_pages(showing)
    /\ buffer' = page_recs[1]
    /\ all_data' = page_recs[1]
    /\ start' = 2
    /\ slpc' = "loop"
    /\ UNCHANGED <<showing, page_recs, page_ok, gmc_data, reported>>
    /\ UNCHANGED <<recon_vars, store_vars, scrape_vars, pure_vars, ids_vars>>

\* one pass of the batch loop: gather the pages of the batch, extend the
\* buffer, and when it is non-empty save it, extend all_data and clear it
SL_Batch ==
    /\ slpc = "loop"
    /\ start <= total_pages
    /\ LET last == Min2(start + CONCURRENCY, total_pages + 1) - 1
           buf == buffer \o GatherRecords(page_ok, page_recs, start, last)
       IN  IF buf # <<>>
           THEN /\ gmc_data' = gmc_data \o buf
                /\ all_data' = all_data \o buf
                /\ buffer' = <<>>
           ELSE /\ buffer' = buf
                /\ UNCHANGED <<gmc_data, all_data>>
    /\ start' = start + CONCURRENCY
    /\ UNCHANGED <<showing, page_recs, page_ok, total_pages, reported, slpc>>
    /\ UNCHANGED <<recon_vars, store_vars, scrape_vars, pure_vars, ids_vars>>

\* after the loop: a non-empty buffer is saved and added to all_data;
\* return all_data, and main prints len(data)
SL_Return ==
    /\ slpc = "loop"
    /\ start > total_pages
    /\ IF buffer # <<>>
       THEN /\ gmc_data' = gmc_data \o buffer
            /\ all_data' = all_data \o buffer
            /\ reported' = Len(all_data \o buffer)
       ELSE /\ reported' = Len(all_data)
            /\ UNCHANGED <<gmc_data, all_data>>
    /\ slpc' = "returned"
    /\ UNCHANGED <<showing, page_recs, page_ok, total_pages, buffer, start>>
    /\ UNCHANGED <<recon_vars, store_vars, scrape_vars, pure_vars, ids_vars>>

NextLetter == SL_FirstPageFails \/ SL_FirstPage \/ SL_Batch \/ SL_Return

SpecLetter == InitLetter /\ [][NextLetter]_vars

(***************************************************************************)
(* scraping_gmc.py : scrape_gmc_pages                                      *)
(***************************************************************************)
\* most IDs of one run (parameter max_ids)
MaxIds == 4

\* largest parameter max_consecutive_invalid
MaxInvalidRun == 2

\* what the page of an ID holds: the name heading and the GMC number span
IdPageKinds == {[name |-> n, gmc |-> g] : n, g \in BOOLEAN}

\* extract_doctor_info returns a row (not None) only when both the name and
\* the GMC number are found
extract_doctor_info(pg) == pg.name /\ pg.gmc

InitIds ==
    /\ ReconIdle
    /\ StoreIdle
    /\ ScrapeIdle
    /\ PureIdle
    /\ showing = [none |-> TRUE, n |-> 0]
    /\ page_recs = <<>>
    /\ page_ok = <<>>
    /\ total_pages = 0
    /\ buffer = <<>>
    /\ all_data = <<>>
    /\ gmc_data = <<>>
    /\ start = 0
    /\ reported = -1
    /\ slpc = "idle"
    /\ max_ids \in 0..MaxIds
    /\ id_pages \in [1..max_ids -> IdPageKinds]
    /\ max_consecutive_invalid \in 1..MaxInvalidRun
    /\ visited = 0
    /\ valid_count = 0
    /\ invalid_count = 0
    /\ csv_file = <<>>
    /\ totals = <<>>
    /\ gpc = "loop"

\* one pass of the loop over the IDs: a valid page is appended to the CSV
\* file, counted, and resets invalid_count; an invalid page is counted; the
\* loop breaks when invalid_count reaches max_consecutive_invalid
VisitId ==
    /\ gpc = "loop"
    /\ visited < max_ids
    /\ LET pg == id_pages[visited + 1]
           inv == IF extract_doctor_info(pg) THEN 0 ELSE invalid_count + 1
       IN  /\ IF extract_doctor_info(pg)
              THEN /\ csv_file' = Append(csv_file, visited + 1)
                   /\ valid_count' = valid_count + 1
              ELSE UNCHANGED <<csv_file, valid_count>>
           /\ invalid_count' = inv
           /\ gpc' = IF inv >= max_consecutive_invalid THEN "broke" ELSE "loop"
    /\ visited' = visited + 1
    /\ UNCHANGED <<id_pages, max_ids, max_consecutive_invalid, totals>>
    /\ UNCHANGED <<recon_vars, store_vars, scrape_vars, pure_vars, letter_vars>>

\* after the loop or the break: the totals are printed
ReportTotals ==
    /\ \/ gpc = "broke"
       \/ gpc = "loop" /\ visited = max_ids
    /\ totals' = [valid |-> valid_count, invalid |-> invalid_count,
                  early |-> (gpc = "broke")]
    /\ gpc' = "completed"
    /\ UNCHANGED <<id_pages, max_ids, max_consecutive_invalid, visited,
                   valid_count, invalid_count, csv_file>>
    /\ UNCHANGED <<recon_vars, store_vars, scrape_vars, pure_vars, letter_vars>>

NextIds == VisitId \/ ReportTotals

SpecIds == InitIds /\ [][NextIds]_vars

(***************************************************************************)
(* Claims about the reconciliation engine                                  *)
(***************************************************************************)
NormKeysOf(a) == {NormKey(src_rows[a][i].key) : i \in 1..Len(src_rows[a])}

\* normalized (non-NULL) GMC_Numbers occurring in any source
AllNormKeys == {k \in UNION {NormKeysOf(a) : a \in SourceSet} : ~k.null}

\* the first source, in priority order, that contains key k
FirstSourceWith(k) ==
    Sources[CHOOSE i \in 1..Len(Sources) :
               /\ k \in NormKeysOf(Sources[i])
               /\ \A j \in 1..(i - 1) : k \notin NormKeysOf(Sources[j])]

RowsWithKey(tbl, k) == {i \in 1..Len(tbl) : tbl[i].GMC_Number = k}

ReconEnded == rpc \in {"done", "raised"}

\* C1: after the reconciliation of the three sources, combined_gmc_full holds
\* exactly one row for every normalized GMC_Number occurring in any source,
\* and every non-key value of that row comes from the first source in
\* priority order that contains the key (no cell filled by a later source).
C1_OneRowPerKeyFromFirstSource ==
    (ReconEnded /\ \A a \in SourceSet : HasKeyColumn(a)) =>
        \A k \in AllNormKeys :
            /\ Cardinality(RowsWithKey(committed, k)) = 1
            /\ \A i \in RowsWithKey(committed, k) :
                  \A c \in DOMAIN committed[i].cells :
                      LET v == committed[i].cells[c]
                      IN  IF c \in Range(src_cols[FirstSourceWith(k)])
                          THEN ~v.null /\ v.src = FirstSourceWith(k) /\ v.col = c
                          ELSE v = NullCell

\* the column lists in priority order, laid end to end
AllSourceCols == src_cols["missed"] \o src_cols["spdb"] \o src_cols["gpdb"]

FirstPos(seq, c) == CHOOSE i \in 1..Len(seq) : seq[i] = c /\ \A j \in 1..(i - 1) : seq[j] # c

\* C2: union_columns returns a list with GMC_Number first in which every
\* column of any source occurs exactly once, the non-key columns in
\* first-seen order across the sources taken in priority order.
C2_UnionColumns ==
    rpc # "start" =>
        /\ target_columns[1] = "GMC_Number"
        /\ Range(target_columns) = Range(AllSourceCols) \cup {"GMC_Number"}
        /\ \A i, j \in 1..Len(target_columns) :
              i # j => target_columns[i] # target_columns[j]
        /\ \A i, j \in 2..Len(target_columns) :
              i < j => FirstPos(AllSourceCols, target_columns[i])
                         < FirstPos(AllSourceCols, target_columns[j])

\* a union of lists that share a column, disagree on the order of two
\* columns and do not all start with GMC_Number
C2_Witness ==
    /\ rpc = "insert"
    /\ Len(target_columns) = 4
    /\ src_cols["missed"][1] # "GMC_Number"
    /\ \E c \in NonKey(target_columns) :
          c \in Range(src_cols["missed"]) /\ c \in Range(src_cols["spdb"])
    /\ \E i, j \in 1..Len(src_cols["spdb"]), m, n \in 1..Len(src_cols["gpdb"]) :
          /\ i < j /\ n < m
          /\ src_cols["spdb"][i] = src_cols["gpdb"][m]
          /\ src_cols["spdb"][j] = src_cols["gpdb"][n]
          /\ src_cols["spdb"][i] # "GMC_Number"
          /\ src_cols["spdb"][j] # "GMC_Number"

(***************************************************************************)
(* Claims about the keyed store doctors_single                             *)
(***************************************************************************)
StoreRowsWithKey(store, k) == {i \in 1..Len(store) : store[i].GMC_Number = k}

\* C3: upserting the same record twice, in one write_sqlite call or in two
\* successive calls, leaves one row for it and the same store as upserting
\* it once.
C3_IdempotentUpsert ==
    \A r \in SingleRows :
        /\ (ncalls >= 1 /\ last_call = <<r, r>>) =>
              /\ doctors_single = WriteRows(prev_store, <<r>>)
              /\ Cardinality(StoreRowsWithKey(doctors_single, r.GMC_Number)) = 1
        /\ (ncalls >= 2 /\ last_call = <<r>> /\ prev_call = <<r>>) =>
              /\ doctors_single = prev_store
              /\ Cardinality(StoreRowsWithKey(doctors_single, r.GMC_Number)) = 1

\* the same record written twice in one call into a store that already holds
\* another registrant
C3_Witness ==
    /\ ncalls >= 2
    /\ Len(last_call) = 2
    /\ last_call[1] = last_call[2]
    /\ Len(doctors_single) = 2
    /\ Len(prev_store) = 1
    /\ prev_store[1].GMC_Number # last_call[1].GMC_Number

\* C4: the store has at most one row per GMC_Number and the fifteen non-key
\* columns of each row are those of the record most recently upserted with
\* that GMC_Number.
C4_LastWriteWins ==
    /\ \A i, j \in 1..Len(doctors_single) :
          i # j => doctors_single[i].GMC_Number # doctors_single[j].GMC_Number
    /\ {doctors_single[i].GMC_Number : i \in 1..Len(doctors_single)} = DOMAIN latest
    /\ \A i \in 1..Len(doctors_single) :
          \A c \in ColumnSet \ {"GMC_Number"} :
              doctors_single[i][c] = latest[doctors_single[i].GMC_Number][c]

\* a row overwritten by a later record with other values
C4_Witness ==
    /\ ncalls >= 2
    /\ \E i \in 1..Len(prev_store), j \in 1..Len(doctors_single) :
          /\ prev_store[i].GMC_Number = doctors_single[j].GMC_Number
          /\ prev_store[i].Name # doctors_single[j].Name
          /\ prev_store[i].Profile_URL # doctors_single[j].Profile_URL

(***************************************************************************)
(* Claims about the fetch functions and the coordinator                    *)
(***************************************************************************)
SpecFetchFair == SpecFetch /\ WF_vars(NextFetch)

\* the fetch call of worker w is over
FetchOver(w) == fpc[w] \in {"idle", "returned", "raised"}

C5_AttemptBudget ==
    \A w \in Workers :
        /\ created[w] <= RETRY_LIMIT
        /\ only_blocked[w] => fpc[w] # "raised"
        /\ (only_blocked[w] /\ fpc[w] = "returned")
              => (created[w] = RETRY_LIMIT /\ fresult[w] = NoHtml)

\* C5: a fetch whose every load returns HTML with a blocking marker creates
\* exactly RETRY_LIMIT pages, one per attempt, and then returns None; no fetch
\* ever makes more than RETRY_LIMIT attempts, and every fetch comes to an end.
C5_RetryTermination ==
    []C5_AttemptBudget /\ <>(\A w \in Workers : FetchOver(w))

C5_Witness ==
    \E w \in Workers :
        /\ fpc[w] = "returned"
        /\ only_blocked[w]
        /\ created[w] = RETRY_LIMIT
        /\ fresult[w] = NoHtml
        /\ logmsg[w] = "failed"

\* workers inside the `async with sem` block
Inside == {w \in Workers : wpc[w] = "inside"}

\* pages open in the browser context
OpenPages == {w \in Workers : open_pages[w] > 0}

\* C6: at most MAX_CONCURRENT_PAGES workers are inside scrape_profile_page and
\* at most that many pages are open; a fetch runs only while its worker holds
\* a slot; every slot taken is given back when the worker ends, however it ends.
C6_SemaphoreBound ==
    /\ Cardinality(Inside) <= MAX_CONCURRENT_PAGES
    /\ Cardinality(OpenPages) <= MAX_CONCURRENT_PAGES
    /\ \A w \in Workers : open_pages[w] <= 1
    /\ \A w \in Workers : ~FetchOver(w) /\ fpc[w] # "cancelled" => w \in Inside
    /\ cpc # "call" => sem = MAX_CONCURRENT_PAGES - Cardinality(Inside)

C6_Witness ==
    /\ Cardinality(Inside) = MAX_CONCURRENT_PAGES
    /\ Cardinality(OpenPages) = MAX_CONCURRENT_PAGES
    /\ sem = 0
    /\ NumUrls > MAX_CONCURRENT_PAGES => \E w \in Workers : wpc[w] = "waiting"

\* C7: no page made by an attempt is open during the backoff wait, when the
\* next attempt starts or after the fetch function has returned or raised.
C7_PageClosedOnEveryExit ==
    \A w \in Workers :
        fpc[w] \in {"sleep", "new_page", "returned", "raised"} => open_pages[w] = 0

\* C8: no failure of the fetch of one URL makes scrape_profiles raise or keeps
\* another URL from reaching its terminal state.
C8_FailuresContained ==
    /\ cpc # "raised"
    /\ \A w \in Workers : wpc[w] # "cancelled"

\* C9: every record in the result collection, every row of the export file and
\* every row of the keyed store has a GMC_Number.
C9_NoRecordWithoutId ==
    /\ \A i \in 1..Len(results) : Truthy(results[i].GMC_Number)
    /\ \A i \in 1..Len(out_file) : Truthy(out_file[i].GMC_Number)
    /\ \A i \in 1..Len(doctors_single) : Truthy(doctors_single[i].GMC_Number)

\* C10: once scrape_profiles has returned, the worker of every input URL has
\* finished, the progress counter equals the number of input URLs and no
\* fetch is running.
C10_ReturnsAfterAllWorkers ==
    cpc \in {"returned", "saved"} =>
        /\ \A w \in 1..Len(urls) : wpc[w] = "done"
        /\ progress = Len(urls)
        /\ \A w \in Workers : FetchOver(w)
        /\ Inside = {}

C10_Witness ==
    /\ cpc = "returned"
    /\ Len(urls) = NumUrls
    /\ progress = NumUrls
    /\ Len(results) > 0
    /\ Len(results) < NumUrls

\* C11: when the caller cancels a running scrape_profiles, every worker that
\* was cancelled has closed its page, and the records appended so far are
\* what the caller holds after the call.
C11_CancelClosesPagesKeepsResults ==
    /\ \A w \in Workers :
          (cpc \in {"aborting", "aborted"} /\ wpc[w] = "cancelled") => open_pages[w] = 0
    /\ cpc = "aborted" => ReturnValue = results

\* the registration ids of the model in ascending lexicographic order
IdsAscending == <<"1234567", "7654321">>

\* position of registration id g in the ascending order
IdPos(g) == CHOOSE n \in 1..Len(IdsAscending) : IdsAscending[n] = g.s

\* C12: the flat export written by main lists its rows in strictly ascending
\* order of GMC_Number (hence one row per GMC_Number), whatever the order in
\* which the workers appended their records.
C12_ExportAscendingByKey ==
    (variant = "profile" /\ cpc = "saved") =>
        \A i, j \in 1..Len(out_file) :
            i < j => IdPos(out_file[i].GMC_Number) < IdPos(out_file[j].GMC_Number)

\* the source at which a run of main that raised went wrong
FailedSource ==
    IF \E a \in SourceSet : ~HasKeyColumn(a)
    THEN Sources[CHOOSE i \in 1..Len(Sources) :
                    /\ ~HasKeyColumn(Sources[i])
                    /\ \A j \in 1..(i - 1) : HasKeyColumn(Sources[j])]
    ELSE Sources[next_src]

\* C13: when one source has no table with a GMC_Number column, or the insert
\* from one source fails, every key of the remaining sources still has its row
\* in the committed combined_gmc_full and in the export.
C13_FailureConfinedToSource ==
    rpc = "raised" =>
        \A a \in SourceSet \ {FailedSource} :
            HasKeyColumn(a) =>
                \A k \in NormKeysOf(a) :
                    ~k.null => /\ RowsWithKey(committed, k) # {}
                               /\ RowsWithKey(csv_rows, k) # {}

\* the rows of source a as a set, without their order
RowSet(a) == Range(src_rows[a])

\* the table after the sources from number i on, computed from the row sets
\* alone: ok is FALSE when a source holds one key twice
RECURSIVE MergedFrom(_, _)
MergedFrom(T, i) ==
    IF i > Len(Sources) THEN [ok |-> TRUE, rows |-> T]
    ELSE LET a == Sources[i]
             sel == {r \in RowSet(a) :
                        NotIn(NormKey(r.key), {t.GMC_Number : t \in T}) = "T"}
         IN  IF \E r1, r2 \in sel : /\ r1 # r2
                                    /\ ~NormKey(r1.key).null
                                    /\ NormKey(r1.key) = NormKey(r2.key)
             THEN [ok |-> FALSE, rows |-> {}]
             ELSE MergedFrom(T \cup {SelectRow(target_columns, a, r) : r \in sel}, i + 1)

\* C14: the rows of combined_gmc_full after a run are determined by the set
\* of rows of each source and the priority order, so they are the same for
\* every order of the rows inside the sources.
C14_RowOrderIrrelevant ==
    /\ rpc \in {"export", "done"} =>
          /\ MergedFrom({}, 1).ok
          /\ Range(committed) = MergedFrom({}, 1).rows
          /\ Len(committed) = Cardinality(MergedFrom({}, 1).rows)
    /\ rpc = "raised" => ~MergedFrom({}, 1).ok /\ committed = <<>>

\* a run over a source whose rows are stored in another order than their tags
C14_Witness ==
    /\ rpc = "done"
    /\ Len(committed) >= 2
    /\ \E a \in SourceSet :
          /\ Len(src_rows[a]) >= 2
          /\ src_rows[a][1].tag > src_rows[a][2].tag
          /\ NormKey(src_rows[a][1].key) # NormKey(src_rows[a][2].key)

\* source a holds key k and no source before it in priority order does
IsFirstSourceWith(a, k) ==
    \E i \in 1..Len(Sources) :
        /\ Sources[i] = a
        /\ k \in NormKeysOf(a)
        /\ \A j \in 1..(i - 1) : k \notin NormKeysOf(Sources[j])

\* row carries the label and the table name of the highest-priority source
\* that holds its key, and its cells come from that source
ProvenanceRight(row) ==
    \E a \in SourceSet :
        /\ row.source_db = SourceLabel(a)
        /\ row.source_table = SourceTable(a)
        /\ IsFirstSourceWith(a, row.GMC_Number)
        /\ \A c \in DOMAIN row.cells : ~row.cells[c].null => row.cells[c].src = a

\* C15: every row of combined_gmc_full has in source_db and source_table the
\* label and the table of the highest-priority source holding its key, and no
\* later INSERT changes a row that is already in the table.
C15_ProvenanceOfFirstSource ==
    /\ [](\A i \in 1..Len(combined) : ProvenanceRight(combined[i]))
    /\ [](\A i \in 1..Len(committed) : ProvenanceRight(committed[i]))
    /\ [][rpc = "insert" /\ rpc' # "raised" =>
             /\ Len(combined') >= Len(combined)
             /\ \A i \in 1..Len(combined) : combined'[i] = combined[i]]_vars

\* a committed table holding rows of two sources, a later source having held
\* a key that an earlier one had already contributed
C15_Witness ==
    /\ rpc = "done"
    /\ \E i, j \in 1..Len(committed) : committed[i].source_db # committed[j].source_db
    /\ \E k \in AllNormKeys :
          Cardinality({a \in SourceSet : k \in NormKeysOf(a)}) >= 2

(***************************************************************************)
(* Claims about the URL loader                                             *)
(***************************************************************************)
\* the Profile_URL cells the loader reads from the input, in input order
InputCells ==
    IF db_file.kind = "sqlite"
    THEN where_licensed(db_file.rows)
    ELSE [i \in 1..Len(db_file.rows) |-> db_file.rows[i].url]

\* the cell holds no URL: NULL, empty or only whitespace
EmptyEntry(c) == c.null \/ py_strip(c.s) = <<>>

\* the absolute form of the URL in a cell
AbsoluteForm(c) ==
    IF Head(py_strip(c.s)) = "/" THEN ORIGIN \o py_strip(c.s) ELSE py_strip(c.s)

\* position in the input of the first cell whose URL is u
FirstOccurrence(u) ==
    CHOOSE i \in 1..Len(InputCells) :
        /\ ~EmptyEntry(InputCells[i])
        /\ AbsoluteForm(InputCells[i]) = u
        /\ \A j \in 1..(i - 1) :
               EmptyEntry(InputCells[j]) \/ AbsoluteForm(InputCells[j]) # u

LoadReturned == lpc = "returned" /\ db_file.kind \in {"csv", "sqlite"}

\* C16: the list load_target_urls_from_db returns holds exactly the URLs of
\* the non-empty input entries, every relative one made absolute with the
\* site origin, each once, in the order of their first occurrence in the
\* input; so a relative URL and its absolute form give one entry.
C16_UrlListNormalizedDeduped ==
    LoadReturned =>
        /\ \A i \in 1..Len(InputCells) :
               ~EmptyEntry(InputCells[i]) =>
                   AbsoluteForm(InputCells[i]) \in Range(target_urls)
        /\ \A p \in 1..Len(target_urls) :
               /\ target_urls[p] # <<>>
               /\ Head(target_urls[p]) # "/"
               /\ \E i \in 1..Len(InputCells) :
                      /\ ~EmptyEntry(InputCells[i])
                      /\ AbsoluteForm(InputCells[i]) = target_urls[p]
        /\ \A p, q \in 1..Len(target_urls) :
               p < q =>
                   /\ target_urls[p] # target_urls[q]
                   /\ FirstOccurrence(target_urls[p])
                          < FirstOccurrence(target_urls[q])

\* a relative URL is followed by an empty entry and by its absolute form,
\* and the loader returned one entry for them
C16_Witness ==
    /\ LoadReturned
    /\ \E i, j, k \in 1..Len(InputCells) :
           /\ i < k /\ k < j
           /\ ~InputCells[i].null /\ startswith_slash(InputCells[i].s)
           /\ EmptyEntry(InputCells[k])
           /\ ~InputCells[j].null
           /\ InputCells[j].s = ORIGIN \o InputCells[i].s
    /\ Len(target_urls) = 1
    /\ startswith_slash(Tail(target_urls[1]))

(***************************************************************************)
(* Claims about the extractor                                              *)
(***************************************************************************)
ParseReturned == ppc = "returned"

\* the document without the label line and the lines under it of field f
WithoutField(d, f) == [d EXCEPT !.blocks[f] = "absent"]

\* C17: when the label line of one of the six optional fields is missing
\* from a document, parse_gp_profile returns a record in which that field is
\* null and every other field has the value it has for the same document
\* with the label and its value present.
C17_MissingLabelOnlyNullsItsField ==
    ParseReturned =>
        \A f \in FieldSet :
            doc.blocks[f] \in {"plain", "helped"} =>
                LET without == parse_document(WithoutField(doc, f))
                IN  /\ without[KeyOf(f)] = None
                    /\ \A g \in FieldSet \ {f} :
                           without[KeyOf(g)] = parsed[KeyOf(g)]
                    /\ without.Registration_History = parsed.Registration_History

\* the rows of a table that have exactly three cells, in document order
ThreeCellRows(table) == SelectSeq(table, LAMBDA r : Len(r) = 3)

\* the tables of the document that hold a row of exactly three cells
YieldingTables == {i \in 1..Len(doc.tables) : ThreeCellRows(doc.tables[i]) # <<>>}

\* C18: the registration history is one {From, To, Status} triple per
\* three-cell row, in document order, of the first table that holds such a
\* row; rows with another number of cells give no triple and no later table
\* contributes.
C18_HistoryFromFirstYieldingTable ==
    ParseReturned =>
        IF YieldingTables = {}
        THEN parsed.Registration_History = <<>>
        ELSE LET rows == ThreeCellRows(doc.tables[Least(YieldingTables)])
             IN  /\ Len(parsed.Registration_History) = Len(rows)
                 /\ \A k \in 1..Len(rows) :
                        /\ parsed.Registration_History[k].From = rows[k][1]
                        /\ parsed.Registration_History[k].To = rows[k][2]
                        /\ parsed.Registration_History[k].Status = rows[k][3]

\* the first table holds a two-cell row and a three-cell row, a later table
\* holds a three-cell row, and the history is the one triple of the first
C18_Witness ==
    /\ ParseReturned
    /\ Cardinality(YieldingTables) = 2
    /\ 1 \in YieldingTables
    /\ \E r \in 1..Len(doc.tables[1]) : Len(doc.tables[1][r]) = 2
    /\ Len(parsed.Registration_History) = 1
    /\ parsed.Registration_History[1].From = ThreeCellRows(doc.tables[1])[1][1]

(***************************************************************************)
(* Claims about the validity probe and the backoff of scrape_profile_page  *)
(***************************************************************************)
\* the call returned HTML
ReturnedHtml(w) == fpc[w] = "returned" /\ ~fresult[w].none

\* the call sleeps after an attempt that passed the blocking check and
\* gave no registration id
SoftFailed(w) == fpc[w] = "sleep" /\ logmsg[w] = "no data"

\* C19: scrape_profile_page returns HTML only when the HTML holds no
\* blocking marker and a registration id; an attempt whose HTML passes the
\* blocking check without a registration id returns nothing, counts as one
\* attempt and is followed by a new attempt while attempts remain; after
\* valid HTML was returned no further attempt is made.
C19_OnlyValidHtmlReturned ==
    /\ [](variant = "profile" =>
             \A w \in Workers :
                 /\ ReturnedHtml(w) =>
                        /\ fresult[w].markers \cap ProfileMarkers = {}
                        /\ ~fresult[w].gmc.none /\ fresult[w].gmc.s # ""
                        /\ created[w] = attempt[w] + 1
                 /\ SoftFailed(w) =>
                        /\ fresult[w].none
                        /\ created[w] = attempt[w] + 1
                        /\ created[w] <= RETRY_LIMIT)
    /\ [][variant = "profile" =>
             \A w \in Workers :
                 /\ (fpc[w] = "closing" /\ fpc'[w] = "returned") =>
                        (html[w].markers \cap ProfileMarkers = {} /\ ~html[w].gmc.none)
                 /\ (fpc[w] = "closing" /\ fpc'[w] # "closing"
                         /\ open_pages'[w] < open_pages[w]
                         /\ logmsg'[w] # "error"
                         /\ html[w].markers \cap ProfileMarkers = {}
                         /\ html[w].gmc.none) => SoftFailed(w)'
                 /\ (SoftFailed(w) /\ fpc'[w] # "sleep") =>
                        IF attempt[w] + 1 < RETRY_LIMIT
                        THEN fpc'[w] = "new_page" /\ attempt'[w] = attempt[w] + 1
                        ELSE fpc'[w] = "returned" /\ fresult'[w].none
                 /\ ReturnedHtml(w) =>
                        (created'[w] = created[w] /\ fresult'[w] = fresult[w])]_vars

\* valid HTML was returned by an attempt that followed a soft failure
C19_Witness ==
    /\ variant = "profile"
    /\ ReturnedHtml(1)
    /\ logmsg[1] = "no data"
    /\ attempt[1] >= 1

\* the call sleeps after a blocked attempt / after a transport-level error
SleepBlocked(w) == fpc[w] = "sleep" /\ logmsg[w] = "verification"

SleepError(w) == fpc[w] = "sleep" /\ logmsg[w] = "error"

\* C20: of two sleeps after blocked attempts the one of the later attempt is
\* longer, of two sleeps after transport-level errors the one of the later
\* attempt is longer, and for one attempt number the sleep after an error is
\* shorter than the sleep after a blocked attempt.
C20_BackoffOrdering ==
    variant = "profile" =>
        \A v, w \in Workers :
            /\ (SleepBlocked(v) /\ SleepBlocked(w) /\ attempt[v] < attempt[w])
                   => wait[v] < wait[w]
            /\ (SleepError(v) /\ SleepError(w) /\ attempt[v] < attempt[w])
                   => wait[v] < wait[w]
            /\ (SleepError(v) /\ SleepBlocked(w) /\ attempt[v] = attempt[w])
                   => wait[v] < wait[w]

\* one call sleeps after a transport-level error while the other sleeps
\* after a blocked attempt of the same attempt number, both past their first
\* attempt
C20_Witness ==
    /\ variant = "profile"
    /\ SleepError(1) /\ SleepBlocked(2)
    /\ attempt[1] = attempt[2] /\ attempt[1] >= 1
    /\ wait[1] < wait[2]

(***************************************************************************)
(* Claims about the rows of combined_gmc_full                              *)
(***************************************************************************)
\* the alias of the source a row's provenance names
SourceOfRow(row) == CHOOSE a \in SourceSet : SourceLabel(a) = row.source_db

\* row was built from source row r of source a: every union column the
\* source has holds r's own value of that column, every other one NULL
CopiedByName(row, a, r) ==
    \A c \in NonKey(target_columns) :
        IF c \in Range(src_cols[a])
        THEN row.cells[c] = [null |-> FALSE, src |-> a, tag |-> r.tag, col |-> c]
        ELSE row.cells[c].null

\* C21: every row of combined_gmc_full comes from one row of the source its
\* provenance names: its key is that row's key trimmed and upper-cased, each
\* other union column the source has holds that row's value of the column of
\* that name, each union column the source lacks is NULL, and every column
\* of the source is a union column, so no value is lost or moved.
C21_RowsCopiedByName ==
    \A i \in 1..Len(combined) :
        LET row == combined[i]
            a == SourceOfRow(row)
        IN  /\ row.source_table = SourceTable(a)
            /\ Range(src_cols[a]) \subseteq Range(target_columns)
            /\ DOMAIN row.cells = NonKey(target_columns)
            /\ \E j \in 1..Len(src_rows[a]) :
                   /\ row.GMC_Number = NormKey(src_rows[a][j].key)
                   /\ CopiedByName(row, a, src_rows[a][j])

\* C21 as stated: the key column too holds exactly the source row's value
C21_EveryColumnExact ==
    \A i \in 1..Len(combined) :
        LET row == combined[i]
            a == SourceOfRow(row)
        IN  \E j \in 1..Len(src_rows[a]) :
                /\ row.GMC_Number = src_rows[a][j].key
                /\ CopiedByName(row, a, src_rows[a][j])

\* the merge ended with a row of a source that lacks one union column and
\* has another, and whose stored key differs from the key in the source
C21_Witness ==
    /\ rpc = "done"
    /\ \E i \in 1..Len(combined) :
           LET row == combined[i]
               a == SourceOfRow(row)
           IN  /\ \E c \in NonKey(target_columns) : row.cells[c].null
               /\ \E c \in NonKey(target_columns) : ~row.cells[c].null
               /\ \A j \in 1..Len(src_rows[a]) : src_rows[a][j].key # row.GMC_Number

(***************************************************************************)
(* Claims about the result collection of scrape_profiles                   *)
(***************************************************************************)
\* positions of the result collection holding a record tagged with URL u
RecordsTagged(u) ==
    {i \in 1..Len(results) : results[i].Profile_URL = Some(u)}

\* the tasks whose fetch returned HTML
FetchedWorkers == {w \in 1..Len(urls) : ~fresult[w].none}

TwinKeys(a) ==
    {k \in NormKeysOf(a) :
        /\ ~k.null
        /\ \E i, j \in 1..Len(src_rows[a]) :
               /\ i < j
               /\ NormKey(src_rows[a][i].key) = k
               /\ NormKey(src_rows[a][j].key) = k}

\* C23: when a source holds two rows whose keys normalize to the same value,
\* the merge does not fail, and once it is over combined_gmc_full holds
\* exactly one row for that key.
C23_TwinRowsGiveOneRow ==
    (\A a \in SourceSet : HasKeyColumn(a)) =>
        \A a \in SourceSet : \A k \in TwinKeys(a) :
            /\ rpc # "raised"
            /\ rpc \in {"export", "done"} =>
                   Cardinality({i \in 1..Len(combined) :
                                   combined[i].GMC_Number = k}) = 1

\* C26: no row of combined_gmc_full has a NULL GMC_Number, and once the merge
\* is over every non-NULL normalized key of every source has a row, whether
\* or not rows with a NULL key exist.
C26_NullKeysSkippedAndHarmless ==
    /\ \A i \in 1..Len(combined) : ~combined[i].GMC_Number.null
    /\ rpc \in {"export", "done"} =>
           \A k \in AllNormKeys :
               \E i \in 1..Len(combined) : combined[i].GMC_Number = k

(***************************************************************************)
(* Claims about get_label_value                                            *)
(***************************************************************************)
\* the lines of a text as get_label_value compares them
TrimmedLines(text) ==
    [i \in 1..Len(text) |-> strip_line(normalize_text(text[i]))]

\* the lines of t that hold exactly the label of field f
LabelLinesOf(t, f) == {i \in 1..Len(t) : t[i] = f}

\* a line that is blank or starts with a noise prefix
BlankOrNoise(l) == l = "" \/ l \in NOISE_PREFIXES

\* the lines of t after line i that can be the value of field f
ValueLinesAfter(t, f, i) ==
    {j \in (i + 1)..Len(t) :
        /\ ~BlankOrNoise(t[j])
        /\ t[j] \notin LABELS
        /\ t[j] \notin StopLabels(f)}

\* what get_label_value returns for field f on the document
LabelValue(f) == get_label_value(FullText(doc), f, StopLabels(f))

\* C24: get_label_value returns (and parse_gp_profile stores) the first line
\* after a line equal to the label that is not blank, does not start with a
\* noise prefix and is neither a recognized label nor a stop label;
\* get_label_value returns null when no line equal to the label is followed
\* by such a line.
C24_FirstMeaningfulLineAfterLabel ==
    ParseReturned =>
        LET t == TrimmedLines(FullText(doc))
        IN  \A f \in FieldSet :
                LET I == {i \in LabelLinesOf(t, f) : ValueLinesAfter(t, f, i) # {}}
                IN  IF I = {}
                    THEN LabelValue(f) = None
                    ELSE parsed[KeyOf(f)] =
                             Some(t[Least(ValueLinesAfter(t, f, Least(I)))])

\* one document shows the three cases: a value found behind a helper
\* sentence, a value found behind another label, and no value at all (the
\* stored field then comes from the pattern fallback)
C24_Witness ==
    /\ ParseReturned
    /\ doc.tables = <<>>
    /\ doc.blocks["Profession"] = "helped"
    /\ doc.blocks["Full registration date"] = "empty"
    /\ doc.blocks["Gender"] = "helped"
    /\ doc.blocks["Designated body"] = "empty"
    /\ doc.blocks["Responsible officer"] = "empty"
    /\ parsed.Profession = Some("Doctor")
    /\ parsed.Full_Registration_Date = Some("Woman")
    /\ LabelValue("Designated body") = None
    /\ parsed.Designated_Body = Some("Responsible officer")

\* the first line of t after line i that is neither blank nor noise is a label
FollowedByLabel(t, i) ==
    LET J == {j \in (i + 1)..Len(t) : ~BlankOrNoise(t[j])}
    IN  J # {} /\ t[Least(J)] \in LABELS

\* C25: when the label line of a field is followed, blank and noise lines
\* aside, directly by another label, get_label_value returns null for the
\* field.
C25_NoValueFromBehindNextLabel ==
    ParseReturned =>
        LET t == TrimmedLines(FullText(doc))
        IN  \A f \in FieldSet :
                (/\ LabelLinesOf(t, f) # {}
                 /\ \A i \in LabelLinesOf(t, f) : FollowedByLabel(t, i))
                    => LabelValue(f) = None

(***************************************************************************)
(* Claims about a second run of the reconciliation                         *)
(***************************************************************************)
\* the step is a whole second run of main
IsSecondRun == rpc \in {"done", "raised"} /\ rpc' \in {"done again", "raised again"}

\* C27: a second run of the reconciliation over the same sources and the
\* existing output database leaves combined_gmc_full as it was: the same
\* rows in the same order with the same values and provenance.
C27_SecondRunChangesNothing ==
    [][IsSecondRun => (committed' = committed /\ combined' = committed)]_vars

\* a second run ended over a table holding rows of two sources, one of the
\* sources holding a row with a NULL key that has no row in the table
C27_Witness ==
    /\ rpc = "done again"
    /\ \E i, j \in 1..Len(committed) :
           committed[i].source_db # committed[j].source_db
    /\ \E a \in SourceSet : \E r \in 1..Len(src_rows[a]) : src_rows[a][r].key.null
    /\ \A i \in 1..Len(committed) : ~committed[i].GMC_Number.null

(***************************************************************************)
(* Claims about the register flags                                         *)
(***************************************************************************)
\* the flattening has run
Flattened == ppc = "flattened"

\* C28: GP_Register.Since is non-null only when GP_Register.On_Register is
\* true, and a non-empty Specialties list implies that
\* Specialist_Register.On_Register is true; so no flattened row has
\* On_GP_Register = 0 with a non-empty GP_Since, or On_Specialist_Register = 0
\* with a non-empty Specialties_Flat
C28_FlagsCoverTheirValues ==
    /\ ppc = "parsed" =>
          /\ ~parsed.GP_Register.Since.none => parsed.GP_Register.On_Register
          /\ parsed.Specialist_Register.Specialties # <<>>
                => parsed.Specialist_Register.On_Register
    /\ Flattened =>
          /\ ~(parsed.row.On_GP_Register = 0 /\ parsed.row.GP_Since # "")
          /\ ~(parsed.row.On_Specialist_Register = 0
               /\ parsed.row.Specialties_Flat # <<>>)

\* a flattened row of a page that says the doctor is not on the GP Register
\* and lists a specialty with its date: the date behind "GP Register" is not
\* taken as GP_Since, and the specialty sets the specialist flag
C28_Witness ==
    /\ Flattened
    /\ ~Contains(PageText(doc), <<"This", "doctor", "is", "on", "the", "GP", "Register">>)
    /\ ~gp_since_regex(PageText(doc)).none
    /\ parsed.row.On_GP_Register = 0
    /\ parsed.row.GP_Since = ""
    /\ ~Contains(PageText(doc), <<"This", "doctor", "is", "on", "the",
                                  "Specialist", "Register">>)
    /\ parsed.row.On_Specialist_Register = 1
    /\ parsed.row.Specialties_Flat # <<>>

(***************************************************************************)
(* Claims about scrape_letter                                              *)
(***************************************************************************)
\* the number of positions of seq that hold x
Occurs(seq, x) == Cardinality({i \in 1..Len(seq) : seq[i] = x})

\* the pages of the letter whose HTML was parsed
ParsedPages ==
    IF ~page_ok[1] THEN {}
    ELSE {1} \cup {p \in 2..total_pages : page_ok[p]}

\* C29: when scrape_letter has returned, each record parsed from a page of
\* the letter is in gmc_data exactly once and in the returned list exactly
\* once, so the record count reported for the letter equals the number of
\* rows saved for it.
C29_EachRecordSavedAndCountedOnce ==
    slpc = "returned" =>
        /\ \A p \in ParsedPages : \A k \in 1..Len(page_recs[p]) :
               /\ Occurs(gmc_data, page_recs[p][k]) = 1
               /\ Occurs(all_data, page_recs[p][k]) = 1
        /\ reported = Len(gmc_data)

(***************************************************************************)
(* Claims about scrape_gmc_pages                                           *)
(***************************************************************************)
\* the last n visited pages exist and are all invalid
LastInvalid(n) ==
    /\ n <= visited
    /\ \A i \in (visited - n + 1)..visited : ~extract_doctor_info(id_pages[i])

\* C30: when scrape_gmc_pages has printed its totals, valid_count plus
\* invalid_count equals the number of IDs visited, and the run stopped early
\* only if the last max_consecutive_invalid visited pages were all invalid.
C30_TotalsAccountForEveryId ==
    gpc = "completed" =>
        /\ totals.valid + totals.invalid = visited
        /\ totals.early => LastInvalid(max_consecutive_invalid)

====
